---------------------------- MODULE Spec2Model ----------------------------
(***************************************************************************)
(* Model of the arabellix-time synchronisation pipeline.                   *)
(*                                                                         *)
(*  - gasSyncManager            (src/gas/managers/gasSyncManager.js)       *)
(*      the event path: SYNC_TOKEN script property, Calendar.Events.list,  *)
(*      addTimestamp, the row mapping of insertEventsIntoBigQuery and      *)
(*      BigQuery.Tabledata.insertAll                                       *)
(*  - AdminCard handlers        (src/gas/cards/AdminCard.js)               *)
(*                                                                         *)
(* JavaScript values that may be undefined are modelled as sequences of    *)
(* length at most one: <<>> is undefined, <<v>> is the value v.            *)
(***************************************************************************)
EXTENDS Integers, Sequences, FiniteSets, TLC

(***************************************************************************)
(* Bounds of the model.                                                    *)
(***************************************************************************)
\* length of the calendar's change log
MaxFeed == 3
\* number of handler invocations that read the clock (new Date())
MaxClock == 3
\* length, in tokens, of a Categories text
MaxCatLen == 3
\* how many of the optional text fields deviate from all-present/all-missing
MaxMix == 1

\* gasSyncManager.js:41 maxResults: 250, scaled to the size of the model
maxResults == 2

\* number of distinct events the calendar can hold: one more than fits a page
MaxEvents == maxResults + 1

(***************************************************************************)
(* JavaScript values                                                       *)
(***************************************************************************)
Undefined == <<>>
Some(v) == <<v>>

\* truthiness of a string-or-undefined value: undefined and '' are falsy
Truthy(x) == x # Undefined /\ x[1] # ""
\* truthiness of a text (token sequence)-or-undefined value
TruthyText(x) == x # Undefined /\ x[1] # <<>>
\* a || b on string-or-undefined values
Or(a, b) == IF Truthy(a) THEN a ELSE b


(***************************************************************************)
(* Texts and JSON.parse.  A text is a sequence of lexical tokens; "str" is *)
(* a string literal.  JSONparse accepts exactly the texts that are one     *)
(* JSON value of the grammar  value ::= str | [] | [ value (, value)* ]    *)
(* and fails (SyntaxError) on every other text.                            *)
(***************************************************************************)
Tokens == {"[", "]", ",", "str"}

RECURSIVE TextsOfLen(_)
TextsOfLen(n) ==
  IF n = 0 THEN {<<>>}
  ELSE {Append(t, k) : t \in TextsOfLen(n - 1), k \in Tokens}

Texts == UNION {TextsOfLen(n) : n \in 0..MaxCatLen}

ParseFail == [ok |-> FALSE, next |-> 0, val |-> [kind |-> "none", elems |-> <<>>]]
ParseOk(n, v) == [ok |-> TRUE, next |-> n, val |-> v]

RECURSIVE ParseValue(_, _)
RECURSIVE ParseElems(_, _, _)
ParseValue(t, i) ==
  IF i > Len(t) THEN ParseFail
  ELSE IF t[i] = "str" THEN ParseOk(i + 1, [kind |-> "string", elems |-> <<>>])
  ELSE IF t[i] = "["
    THEN IF i + 1 <= Len(t) /\ t[i + 1] = "]"
           THEN ParseOk(i + 2, [kind |-> "array", elems |-> <<>>])
           ELSE ParseElems(t, i + 1, <<>>)
  ELSE ParseFail

ParseElems(t, i, acc) ==
  LET v == ParseValue(t, i) IN
  IF ~v.ok \/ v.next > Len(t) THEN ParseFail
  ELSE IF t[v.next] = "]"
    THEN ParseOk(v.next + 1, [kind |-> "array", elems |-> Append(acc, v.val)])
  ELSE IF t[v.next] = ","
    THEN ParseElems(t, v.next + 1, Append(acc, v.val))
  ELSE ParseFail

\* JSON.parse(text): ok = FALSE stands for the SyntaxError it throws
JSONparse(t) ==
  LET v == ParseValue(t, 1) IN
  IF v.ok /\ v.next = Len(t) + 1 THEN v ELSE ParseFail

(***************************************************************************)
(* gasSyncManager.parseCategories                                          *)
(***************************************************************************)
parseCategories(categoriesJson) ==
  IF ~TruthyText(categoriesJson) THEN <<>>
  ELSE LET arr == JSONparse(categoriesJson[1]) IN
       IF ~arr.ok THEN <<>>                      \* catch (e) -> []
       ELSE IF arr.val.kind = "array" THEN arr.val.elems ELSE <<>>

(***************************************************************************)
(* Raw calendar events (RawEventMutation)                                  *)
(***************************************************************************)
MetaFields ==
  {"Code", "Client", "Project", "Task", "Rate", "Comments", "CompanySize",
   "OriginalTitle"}
TextFields == {"summary", "description"} \cup MetaFields

\* the value a text field carries when it is present: its own name
Val(present, f) == IF f \in present THEN Some(f) ELSE Undefined

TimeOf(times) ==
  IF times = "none" THEN Undefined
  ELSE IF times = "dateTime"
    THEN Some([dateTime |-> Some("dateTime"), date |-> Undefined])
    ELSE Some([dateTime |-> Undefined, date |-> Some("date")])

SharedOf(present, cats) ==
  [Code |-> Val(present, "Code"), Client |-> Val(present, "Client"),
   Project |-> Val(present, "Project"), Task |-> Val(present, "Task"),
   Rate |-> Val(present, "Rate"), Comments |-> Val(present, "Comments"),
   CompanySize |-> Val(present, "CompanySize"), Categories |-> cats,
   OriginalTitle |-> Val(present, "OriginalTitle")]

ExtOf(ext, present, cats) ==
  IF ext = "none" THEN Undefined
  ELSE IF ext = "noshared" THEN Some([shared |-> Undefined])
  ELSE Some([shared |-> Some(SharedOf(present, cats))])

\* An event as Calendar.Events.list returns it.  An entry without times is
\* the bare form of a cancelled event: only its identity and status.
MkEvent(id, status, times, ext, present, cats) ==
  [id |-> id,
   status |-> Some(status),
   summary |-> Val(present, "summary"),
   description |-> Val(present, "description"),
   start |-> TimeOf(times),
   end |-> TimeOf(times),
   extendedProperties |-> ExtOf(ext, present, cats),
   iCalUID |-> IF times = "none" THEN Undefined ELSE Some("iCalUID"),
   creator |-> IF times = "none" THEN Undefined
               ELSE Some([email |-> Some("email")]),
   created |-> IF times = "none" THEN Undefined ELSE Some("created"),
   updated |-> IF times = "none" THEN Undefined ELSE Some("updated"),
   record_load_time |-> Undefined]

(***************************************************************************)
(* gasSyncManager.addTimestamp and the row mapping of                      *)
(* gasSyncManager.insertEventsIntoBigQuery                                 *)
(***************************************************************************)
\* mutant: only the first event gets the timestamp
addTimestamp_FirstOnly(events, currentTimestamp) ==
  [i \in 1..Len(events) |->
     IF i = 1 THEN [events[i] EXCEPT !.record_load_time = Some(currentTimestamp)]
     ELSE events[i]]

addTimestamp(events, currentTimestamp) ==
  [i \in 1..Len(events) |->
     [events[i] EXCEPT !.record_load_time = Some(currentTimestamp)]]

\* event.extendedProperties && event.extendedProperties.shared ? ... : {}
EmptyProps == SharedOf({}, Undefined)
sharedPropsOf(event) ==
  IF event.extendedProperties # Undefined
     /\ event.extendedProperties[1].shared # Undefined
  THEN event.extendedProperties[1].shared[1]
  ELSE EmptyProps

\* event.start.dateTime / event.end.dateTime on an event without start or
\* end is a TypeError
RowThrows(event) == event.start = Undefined \/ event.end = Undefined

\* mutant: rate is copied without the || '' default
RowOf_NoDefault(event) ==
  LET sharedProps == sharedPropsOf(event) IN
  [record_load_time |-> event.record_load_time,
   id |-> event.id,
   summary |-> Or(event.summary, Some("")),
   description |-> Or(event.description, Some("")),
   start |-> Or(event.start[1].dateTime, event.start[1].date),
   end |-> Or(event.end[1].dateTime, event.end[1].date),
   code |-> Or(sharedProps.Code, Some("")),
   client |-> Or(sharedProps.Client, Some("")),
   project |-> Or(sharedProps.Project, Some("")),
   task |-> Or(sharedProps.Task, Some("")),
   rate |-> sharedProps.Rate,
   comments |-> Or(sharedProps.Comments, Some("")),
   company_size |-> Or(sharedProps.CompanySize, Some("")),
   categories |-> parseCategories(sharedProps.Categories),
   original_title |-> Or(sharedProps.OriginalTitle, Some("")),
   deleted |-> (event.status = Some("cancelled")),
   ical_uid |-> Or(event.iCalUID, Some("")),
   creator_email |->
     IF event.creator # Undefined
       THEN Or(event.creator[1].email, Some("")) ELSE Some(""),
   created_time |-> Or(event.created, Some("")),
   modified_time |-> Or(event.updated, Some(""))]

RowOf(event) ==
  LET sharedProps == sharedPropsOf(event) IN
  [record_load_time |-> event.record_load_time,
   id |-> event.id,
   summary |-> Or(event.summary, Some("")),
   description |-> Or(event.description, Some("")),
   start |-> Or(event.start[1].dateTime, event.start[1].date),
   end |-> Or(event.end[1].dateTime, event.end[1].date),
   code |-> Or(sharedProps.Code, Some("")),
   client |-> Or(sharedProps.Client, Some("")),
   project |-> Or(sharedProps.Project, Some("")),
   task |-> Or(sharedProps.Task, Some("")),
   rate |-> Or(sharedProps.Rate, Some("")),
   comments |-> Or(sharedProps.Comments, Some("")),
   company_size |-> Or(sharedProps.CompanySize, Some("")),
   categories |-> parseCategories(sharedProps.Categories),
   original_title |-> Or(sharedProps.OriginalTitle, Some("")),
   deleted |-> (event.status = Some("cancelled")),
   ical_uid |-> Or(event.iCalUID, Some("")),
   creator_email |->
     IF event.creator # Undefined
       THEN Or(event.creator[1].email, Some("")) ELSE Some(""),
   created_time |-> Or(event.created, Some("")),
   modified_time |-> Or(event.updated, Some(""))]

\* events.map(...): the rows, or threw when mapping any event throws
MapRows(events) ==
  IF \E i \in 1..Len(events) : RowThrows(events[i])
  THEN [threw |-> TRUE, rows |-> <<>>]
  ELSE [threw |-> FALSE, rows |-> [i \in 1..Len(events) |-> RowOf(events[i])]]


(***************************************************************************)
(* The sheet "Projects" (the ledger).  A cell, as getValues() returns it,  *)
(* is empty (''), a text, a number, a boolean or a Date; "iso" is the text *)
(* JSON.stringify makes of a Date.  n is the number, the boolean (0, 1) or *)
(* the instant of the date, s the text.                                    *)
(***************************************************************************)
\* instants per day: an instant t lies on day t \div DayLen
DayLen == 2
\* gasProjectInfoManager.js:35 cacheExpiry = 3600 (seconds), scaled
cacheExpiry == 2

\* instants that new Date() returns
MaxTime == 2
\* rows of the ledger
MaxLedger == 2
\* rows of the table "projects"
MaxTable == 3

Empty == [k |-> "empty", s |-> "", n |-> 0]
Text(s) == [k |-> "text", s |-> s, n |-> 0]
Num(n) == [k |-> "num", s |-> "", n |-> n]
Bool(b) == [k |-> "bool", s |-> "", n |-> IF b THEN 1 ELSE 0]
DateCell(t) == [k |-> "date", s |-> "", n |-> t]
IsoText(t) == [k |-> "iso", s |-> "", n |-> t]

\* truthiness of a cell: '', 0 and false are falsy
CellTruthy(c) ==
  CASE c.k = "empty" -> FALSE
    [] c.k = "text" -> c.s # ""
    [] c.k = "num" -> c.n # 0
    [] c.k = "bool" -> c.n = 1
    [] OTHER -> TRUE

\* String.prototype.trim on the texts of the model
Trim(s) ==
  CASE s = " " -> ""
    [] s = " A " -> "A"
    [] OTHER -> s

\* String(cell) of a truthy cell
StringOf(c) ==
  CASE c.k = "text" -> c.s
    [] c.k = "num" -> ToString(c.n)
    [] c.k = "bool" -> "true"
    [] c.k = "iso" -> "iso" \o ToString(c.n)
    [] OTHER -> "date" \o ToString(c.n)

\* a row of the sheet, in the column order the code destructures
MkRow(code, client, project, task, start, end, rate, categories) ==
  [code |-> code, client |-> client, project |-> project, task |-> task,
   is_default |-> Bool(FALSE), start |-> start, end |-> end, rate |-> rate,
   description |-> Text("description"), comments |-> Empty,
   budgetedHours |-> Empty, companySize |-> Text("small"),
   categories |-> categories]

\* JSON.stringify(data): a Date becomes its ISO text, every other cell keeps
\* its value; the result is the text stored in the cache
StringifyCell(c) == IF c.k = "date" THEN IsoText(c.n) ELSE c
JSONstringify(data) ==
  [json |-> [i \in 1..Len(data) |->
               [f \in DOMAIN data[i] |-> StringifyCell(data[i][f])]]]
\* JSON.parse(cachedData): the rows the text encodes; dates stay texts
JSONparseData(text) == text.json

(***************************************************************************)
(* gasProjectInfoManager: the cache (CacheService.getUserCache())          *)
(***************************************************************************)
\* mutant: an entry is served however old it is
CacheGet_NoExpiry(c, now) ==
  IF c # Undefined THEN Some(c[1].text) ELSE Undefined

\* cache.get(cacheKey): the text put, until its expiry has elapsed
CacheGet(c, now) ==
  IF c # Undefined /\ now < c[1].expires THEN Some(c[1].text) ELSE Undefined

\* cache.put(cacheKey, text, cacheExpiry)
CachePut(text, now) == Some([text |-> text, expires |-> now + cacheExpiry])

fetchFromCache(c, now) ==
  LET cachedData == CacheGet(c, now)
  IN IF cachedData # Undefined THEN Some(JSONparseData(cachedData[1]))
     ELSE Undefined

\* fetchData: the rows returned, whether the sheet was read, and the cache
\* afterwards
fetchData(c, sheet, now) ==
  LET projectInfo == fetchFromCache(c, now)
  IN IF projectInfo # Undefined
       THEN [data |-> projectInfo[1], read |-> FALSE, cache |-> c]
       ELSE [data |-> sheet, read |-> TRUE,
             cache |-> CachePut(JSONstringify(sheet), now)]

(***************************************************************************)
(* gasProjectInfoManager: the date window of the active views              *)
(***************************************************************************)
NaN == Undefined

\* new Date(cell).getTime(): a Date and its ISO text give the same instant,
\* a number is taken as the instant, any other text is no date (NaN)
TimeValue(c) == IF c.k \in {"date", "iso", "num"} THEN Some(c.n) ELSE NaN

\* date.setHours(0, 0, 0, 0): the first instant of the date's day
setHours0(t) == IF t = NaN THEN NaN ELSE Some(t[1] - (t[1] % DayLen))

\* mutant: today keeps its time of day
IsActive_NoTruncate(row, now) ==
  LET today == Some(now)
      startDate == IF CellTruthy(row.start)
                     THEN setHours0(TimeValue(row.start)) ELSE today
      endDate == IF CellTruthy(row.end)
                   THEN setHours0(TimeValue(row.end)) ELSE today
  IN /\ startDate # NaN /\ endDate # NaN
     /\ startDate[1] <= today[1] /\ endDate[1] >= today[1]

\* mutant: a row without an end date is never active
IsActive_EndRequired(row, now) ==
  LET today == setHours0(Some(now))
      startDate == IF CellTruthy(row.start)
                     THEN setHours0(TimeValue(row.start)) ELSE today
      endDate == IF CellTruthy(row.end)
                   THEN setHours0(TimeValue(row.end)) ELSE NaN
  IN /\ startDate # NaN /\ endDate # NaN
     /\ startDate[1] <= today[1] /\ endDate[1] >= today[1]

\* const today = new Date().setHours(0, 0, 0, 0); startDate, endDate;
\* startDate <= today && endDate >= today (a comparison with NaN is false)
IsActive(row, now) ==
  LET today == setHours0(Some(now))
      startDate == IF CellTruthy(row.start)
                     THEN setHours0(TimeValue(row.start)) ELSE today
      endDate == IF CellTruthy(row.end)
                   THEN setHours0(TimeValue(row.end)) ELSE today
  IN /\ startDate # NaN /\ endDate # NaN
     /\ startDate[1] <= today[1] /\ endDate[1] >= today[1]

\* the property name a cell makes when it indexes an object
KeyOf(c) == IF c.k = "empty" THEN "" ELSE StringOf(c)

\* the entry pushed to a project's task list
EntryOf(row) ==
  [code |-> row.code, task |-> row.task, is_default |-> row.is_default,
   start |-> row.start, end |-> row.end, rate |-> row.rate,
   description |-> row.description, comments |-> row.comments]

\* position of the key among the entries of an object, 0 when it has none
IndexOfKey(obj, key) ==
  IF \E i \in 1..Len(obj) : obj[i].key = key
    THEN CHOOSE i \in 1..Len(obj) : obj[i].key = key
    ELSE 0

\* An object is the sequence of its (key, value) entries in insertion order.
\* if (!nestedStructure[client]) nestedStructure[client] = {};
\* if (!nestedStructure[client][project]) nestedStructure[client][project] = [];
\* nestedStructure[client][project].push(entry)
PushEntry(nestedStructure, row) ==
  LET client == KeyOf(row.client)
      project == KeyOf(row.project)
      s1 == IF IndexOfKey(nestedStructure, client) = 0
              THEN Append(nestedStructure, [key |-> client, value |-> <<>>])
              ELSE nestedStructure
      ci == IndexOfKey(s1, client)
      p1 == IF IndexOfKey(s1[ci].value, project) = 0
              THEN Append(s1[ci].value, [key |-> project, value |-> <<>>])
              ELSE s1[ci].value
      pi == IndexOfKey(p1, project)
      p2 == [p1 EXCEPT ![pi].value = Append(@, EntryOf(row))]
  IN [s1 EXCEPT ![ci].value = p2]

\* getNestedStructure: data.forEach over the rows from position i on
RECURSIVE NestedFrom(_, _, _)
NestedFrom(data, i, nestedStructure) ==
  IF i > Len(data) THEN nestedStructure
  ELSE NestedFrom(data, i + 1, PushEntry(nestedStructure, data[i]))

\* mutant: the rows are visited from the last to the first
getNestedStructure_Reversed(data) ==
  NestedFrom([i \in 1..Len(data) |-> data[Len(data) + 1 - i]], 1, <<>>)

getNestedStructure(data) == NestedFrom(data, 1, <<>>)

\* getActiveProjectsTree: data.forEach over the rows from position i on
RECURSIVE ActiveTreeFrom(_, _, _, _)
ActiveTreeFrom(data, i, now, nestedStructure) ==
  IF i > Len(data) THEN nestedStructure
  ELSE ActiveTreeFrom(data, i + 1, now,
         IF IsActive(data[i], now) THEN PushEntry(nestedStructure, data[i])
         ELSE nestedStructure)

getActiveProjectsTree(data, now) == ActiveTreeFrom(data, 1, now, <<>>)

\* data.filter(...).map(...): the values of a column in the active rows
\* whose cell in that column is truthy, in row order
RECURSIVE ActiveColumnFrom(_, _, _, _)
ActiveColumnFrom(data, i, now, column) ==
  IF i > Len(data) THEN <<>>
  ELSE (IF IsActive(data[i], now) /\ CellTruthy(data[i][column])
          THEN <<data[i][column]>> ELSE <<>>)
       \o ActiveColumnFrom(data, i + 1, now, column)

\* [...new Set(values)]: the first occurrence of every value, in order
RECURSIVE SetSpread(_)
SetSpread(values) ==
  IF values = <<>> THEN <<>>
  ELSE LET init == SetSpread(SubSeq(values, 1, Len(values) - 1))
           last == values[Len(values)]
       IN IF \E i \in 1..Len(init) : init[i] = last THEN init
          ELSE Append(init, last)

\* mutant: the list is returned without new Set
getActiveClients_NoSet(data, now) == ActiveColumnFrom(data, 1, now, "client")

getActiveClients(data, now) ==
  SetSpread(ActiveColumnFrom(data, 1, now, "client"))

getActiveProjects(data, now) ==
  SetSpread(ActiveColumnFrom(data, 1, now, "project"))

(***************************************************************************)
(* gasProjectInfoManager.syncToBigQuery: the row mapping                   *)
(***************************************************************************)
Null == Undefined

\* cell ? String(cell).trim() : null
TrimmedOrNull(c) == IF CellTruthy(c) THEN Some(Trim(StringOf(c))) ELSE Null

\* new Date(cell).toISOString() throws a RangeError when the cell is no date
IsoThrows(c) == CellTruthy(c) /\ TimeValue(c) = NaN

\* cell ? new Date(cell).toISOString().replace('T', ' ').split('.')[0] : null;
\* the timestamp text is represented by its instant
TimestampOrNull(c) == IF CellTruthy(c) THEN TimeValue(c) ELSE Null

\* parseFloat(text) on the texts of the model: NaN unless the text starts
\* with a number
parseFloat(c) ==
  CASE c.k = "num" -> Some(c.n)
    [] c.k = "text" /\ c.s = "0" -> Some(0)
    [] c.k = "text" /\ c.s = "5" -> Some(5)
    [] OTHER -> NaN

\* typeof cell === 'number' ? cell : parseFloat(cell) || null
NumberOrNull(c) ==
  IF c.k = "num" THEN Some(c.n)
  ELSE LET f == parseFloat(c)
       IN IF f # NaN /\ f[1] # 0 THEN f ELSE Null

\* text.split(',').map(tag => tag.trim()) on the texts of the model
SplitTrim(s) ==
  CASE s = "x, y" -> <<"x", "y">>
    [] OTHER -> <<s>>

\* categories ? categories.split(',').map(...) : []; a truthy cell that is
\* no text has no split method (TypeError)
CategoriesThrows(c) == CellTruthy(c) /\ c.k \notin {"text", "iso"}
CategoriesOf(c) == IF CellTruthy(c) THEN SplitTrim(StringOf(c)) ELSE <<>>

\* mutant: modified_time is taken from the From cell of the row
ProjectRow_ModifiedFromCell(r, currentTime) ==
  [record_date_time |-> Some(currentTime),
   id |-> TrimmedOrNull(r.code),
   client |-> TrimmedOrNull(r.client),
   project |-> TrimmedOrNull(r.project),
   task |-> TrimmedOrNull(r.task),
   default |-> IF r.is_default.k = "bool" THEN Some(r.is_default.n = 1) ELSE Null,
   from |-> TimestampOrNull(r.start),
   to |-> TimestampOrNull(r.end),
   rate |-> NumberOrNull(r.rate),
   description |-> TrimmedOrNull(r.description),
   comments |-> TrimmedOrNull(r.comments),
   budgeted_hours |-> NumberOrNull(r.budgetedHours),
   company_size |-> TrimmedOrNull(r.companySize),
   categories |-> CategoriesOf(r.categories),
   modified_time |-> TimestampOrNull(r.start)]

\* mutant: a row without From is taken to start now
ProjectRow_FromDefaultsNow(r, currentTime) ==
  [record_date_time |-> Some(currentTime),
   id |-> TrimmedOrNull(r.code),
   client |-> TrimmedOrNull(r.client),
   project |-> TrimmedOrNull(r.project),
   task |-> TrimmedOrNull(r.task),
   default |-> IF r.is_default.k = "bool" THEN Some(r.is_default.n = 1) ELSE Null,
   from |-> IF CellTruthy(r.start) THEN TimestampOrNull(r.start)
           ELSE Some(currentTime),
   to |-> TimestampOrNull(r.end),
   rate |-> NumberOrNull(r.rate),
   description |-> TrimmedOrNull(r.description),
   comments |-> TrimmedOrNull(r.comments),
   budgeted_hours |-> NumberOrNull(r.budgetedHours),
   company_size |-> TrimmedOrNull(r.companySize),
   categories |-> CategoriesOf(r.categories),
   modified_time |-> Some(currentTime)]

\* the row object built from a row of the sheet
ProjectRow(r, currentTime) ==
  [record_date_time |-> Some(currentTime),
   id |-> TrimmedOrNull(r.code),
   client |-> TrimmedOrNull(r.client),
   project |-> TrimmedOrNull(r.project),
   task |-> TrimmedOrNull(r.task),
   default |-> IF r.is_default.k = "bool" THEN Some(r.is_default.n = 1) ELSE Null,
   from |-> TimestampOrNull(r.start),
   to |-> TimestampOrNull(r.end),
   rate |-> NumberOrNull(r.rate),
   description |-> TrimmedOrNull(r.description),
   comments |-> TrimmedOrNull(r.comments),
   budgeted_hours |-> NumberOrNull(r.budgetedHours),
   company_size |-> TrimmedOrNull(r.companySize),
   categories |-> CategoriesOf(r.categories),
   modified_time |-> Some(currentTime)]

mandatoryFields ==
  <<"record_date_time", "id", "client", "project", "task", "from", "to">>

\* building the row object throws before the mandatory fields are looked at
BuildThrows(r) ==
  IsoThrows(r.start) \/ IsoThrows(r.end) \/ CategoriesThrows(r.categories)

\* the first mandatory field the row lacks, "" when it has them all
MissingField(row) ==
  IF \E i \in 1..Len(mandatoryFields) : row[mandatoryFields[i]] = Null
    THEN mandatoryFields[CHOOSE i \in 1..Len(mandatoryFields) :
           /\ row[mandatoryFields[i]] = Null
           /\ \A j \in 1..(i - 1) : row[mandatoryFields[j]] # Null]
    ELSE ""

\* the sheet row makes data.map throw
RowFails(r, currentTime) ==
  BuildThrows(r) \/ MissingField(ProjectRow(r, currentTime)) # ""

\* data.map(...): the rows, or the error thrown for the first failing row
\* (index is the number in the message: index + 1)
ProjectRows(data, currentTime) ==
  IF \E i \in 1..Len(data) : RowFails(data[i], currentTime)
    THEN LET i == CHOOSE k \in 1..Len(data) :
                    /\ RowFails(data[k], currentTime)
                    /\ \A j \in 1..(k - 1) : ~RowFails(data[j], currentTime)
         IN [threw |-> TRUE,
             error |-> IF BuildThrows(data[i]) THEN "build" ELSE "validation",
             index |-> i,
             field |-> IF BuildThrows(data[i]) THEN ""
                       ELSE MissingField(ProjectRow(data[i], currentTime)),
             rows |-> <<>>]
    ELSE [threw |-> FALSE, error |-> "none", index |-> 0, field |-> "",
          rows |-> [i \in 1..Len(data) |-> ProjectRow(data[i], currentTime)]]

\* what a call into gasProjectInfoManager did and returned; before is what
\* the cache would have served when the call began
NoCall ==
  [op |-> "none", now |-> 0, before |-> Undefined, data |-> <<>>,
   read |-> FALSE,
   outcome |-> "none", error |-> "none", index |-> 0, rows |-> <<>>,
   submitted |-> FALSE, rejected |-> {}, tree |-> <<>>, list |-> <<>>]

(***************************************************************************)
(* State                                                                   *)
(***************************************************************************)
VARIABLES
  token,      \* script property SYNC_TOKEN: Undefined or Some(token)
  feed,       \* the calendar provider's change log: every event mutation
  warehouse,  \* the rows of the BigQuery table "time"
  clock,      \* what new Date() returns
  run,        \* the locals of each invocation of handleSyncEvents
  response,   \* the action response the last admin handler returned
  ev,         \* mapper check: the event handed to the row mapping
  rec,        \* mapper check: what the row mapping made of it
  ledger,     \* the rows of the sheet "Projects", header row excluded
  cache,      \* the user cache entry "projectInfo": Undefined or Some(entry)
  projects,   \* the rows of the BigQuery table "projects"
  call,       \* what the last call into gasProjectInfoManager did and returned
  config,     \* the user properties gasConfigManager keeps
  prev,       \* the batch the previous run of syncToBigQuery submitted
  card,       \* the locals of the card invocation and the card it displays
  calendar    \* the calendar provider: its events and the requests it got

vars ==
  <<token, feed, warehouse, clock, run, response, ev, rec,
    ledger, cache, projects, call, config, prev, card, calendar>>
mapVars == <<ev, rec>>
catVars == <<ledger, cache, projects, call>>
uiVars == <<card, calendar>>
auxVars == <<config, prev, uiVars>>

\* invocations; one at a time unless a specification interleaves them
Runs == {1, 2}

\* gasConfigManager: the user properties it keeps, each one present or not;
\* IS_INITIALIZED is present when its text is 'true'
ConfigKeys ==
  <<"SPREADSHEET_ID", "CALENDAR_ID", "PROJECT_ID", "DATASET_ID", "IS_INITIALIZED">>
KeySet(keys) == {keys[i] : i \in 1..Len(keys)}
\* the properties after a complete saveConfiguration
Configured == [k \in KeySet(ConfigKeys) |-> TRUE]
\* the properties of a user who never ran the setup
NotConfigured == [k \in KeySet(ConfigKeys) |-> FALSE]

\* no run of syncToBigQuery has submitted a batch
NoBatch == [submitted |-> FALSE, data |-> <<>>, rows |-> <<>>]

\* no card has been asked for: the locals of HomepageCard or EventCard, the
\* rows each of its reads of the project data returned, and the widgets of
\* the card it built
NoCard ==
  [op |-> "none", pc |-> "none", event |-> Undefined,
   client |-> Undefined, project |-> Undefined, task |-> Undefined,
   nestedItems |-> <<>>, treeData |-> <<>>,
   clientItems |-> <<>>, clientData |-> <<>>,
   projects |-> <<>>, tasks |-> <<>>,
   isButtonEnabled |-> FALSE, outcome |-> "none"]

\* startTime or endTime left out of a call
NoTime == [k |-> "undefined", n |-> 0]

\* what the last call of createEvent or updateEvent was given and whether
\* it threw
NoManagerCall ==
  [op |-> "none", eventId |-> 0, startTime |-> NoTime, endTime |-> NoTime,
   threw |-> FALSE]

\* a calendar without events that has received no request
NoCalendar == [events |-> <<>>, requests |-> <<>>, call |-> NoManagerCall]


(***************************************************************************)
(* The calendar provider: Calendar.Events.list                             *)
(***************************************************************************)
EventIds == 1..MaxEvents

IdsOf(f) == {f[i].id : i \in 1..Len(f)}

\* position of the latest mutation of event id in f
LastPos(f, id) ==
  CHOOSE i \in 1..Len(f) : f[i].id = id /\ \A j \in (i + 1)..Len(f) : f[j].id # id

RECURSIVE Ascending(_)
Ascending(S) ==
  IF S = {} THEN <<>>
  ELSE LET m == CHOOSE x \in S : \A y \in S : x <= y
       IN <<m>> \o Ascending(S \ {m})

\* the current state of every event changed after position p, cancelled
\* events included (showDeleted: true); p = 0 is the complete event set
ChangesSince(f, p) ==
  LET pos == Ascending({LastPos(f, id) : id \in IdsOf(SubSeq(f, p + 1, Len(f)))})
  IN [k \in 1..Len(pos) |-> f[pos[k]]]

\* One call of Calendar.Events.list: at most maxResults items; a result that
\* does not fit carries nextPageToken, and only the last page carries
\* nextSyncToken, the position the change log has reached.
EventsList(f, syncToken) ==
  LET all == ChangesSince(f, IF syncToken = Undefined THEN 0 ELSE syncToken[1])
  IN IF Len(all) > maxResults
       THEN [items |-> SubSeq(all, 1, maxResults),
             nextPageToken |-> Some(maxResults),
             nextSyncToken |-> Undefined]
       ELSE [items |-> all,
             nextPageToken |-> Undefined,
             nextSyncToken |-> Some(Len(f))]

\* The shapes in which the provider reports an event.  A live event with an
\* odd id carries every text field and a valid Categories array, one with an
\* even id is an all-day event without summary, description or metadata.
LiveShapes(id) ==
  IF id % 2 = 1
    THEN {MkEvent(id, "confirmed", "dateTime", "shared", TextFields,
                  Some(<<"[", "str", "]">>))}
    ELSE {MkEvent(id, "confirmed", "date", "none", {}, Undefined)}
\* A cancelled event is reported in full, here with a Categories text that is
\* no JSON, or bare: only its identity and status.
CancelledShapes(id) ==
  {MkEvent(id, "cancelled", "dateTime", "shared", {"summary", "Client"},
           Some(<<"[">>)),
   MkEvent(id, "cancelled", "none", "none", {}, Undefined)}

\* the mutations a user of the calendar can make next: create the next
\* event, edit a live event, cancel a live event
NextMutations(f) ==
  LET live == {id \in IdsOf(f) : f[LastPos(f, id)].status # Some("cancelled")}
      fresh == IF Cardinality(IdsOf(f)) < MaxEvents
                 THEN {Cardinality(IdsOf(f)) + 1} ELSE {}
  IN UNION {LiveShapes(id) : id \in live \cup fresh}
       \cup UNION {CancelledShapes(id) : id \in live}

(***************************************************************************)
(* Initial state                                                           *)
(***************************************************************************)
IdleRun ==
  [pc |-> "idle", syncToken |-> Undefined, sent |-> Undefined,
   events |-> <<>>, nextSyncToken |-> Undefined, rows |-> <<>>,
   appended |-> FALSE, insertErrors |-> FALSE, outcome |-> "none",
   error |-> "none"]

NoEvent == MkEvent(0, "confirmed", "none", "none", {}, Undefined)
NotMapped == [state |-> "input", rows |-> <<>>]

Init ==
  /\ token = Undefined
  /\ feed = <<>>
  /\ warehouse = <<>>
  /\ clock = 0
  /\ run = [r \in Runs |-> IdleRun]
  /\ response = "none"
  /\ ev = NoEvent
  /\ rec = NotMapped
  /\ ledger = <<>>
  /\ cache = Undefined
  /\ projects = <<>>
  /\ call = NoCall
  /\ config = Configured
  /\ prev = NoBatch
  /\ card = NoCard
  /\ calendar = NoCalendar

\* no invocation of a handler is under way
Quiet == \A r \in Runs : run[r].pc = "idle"

(***************************************************************************)
(* The calendar's users edit the calendar                                  *)
(***************************************************************************)
Mutate ==
  /\ Quiet
  /\ Len(feed) < MaxFeed
  /\ \E e \in NextMutations(feed) : feed' = Append(feed, e)
  /\ UNCHANGED <<token, warehouse, clock, run, response, mapVars, catVars, auxVars>>

\* fetchCalendarEvents: if (syncToken) optionalArgs.syncToken = syncToken;
\* the syncToken argument of the request, Undefined for a full sync
RequestToken(syncToken) ==
  IF syncToken # Undefined THEN syncToken ELSE Undefined

\* mutant: the token of the response is never stored
NewToken_Keep(old, nextSyncToken) == old

\* mutant: a response without nextSyncToken removes the stored token
NewToken_ClearWhenMissing(old, nextSyncToken) == nextSyncToken

\* fetchCalendarEvents: if (response.nextSyncToken) setProperty('SYNC_TOKEN',
\* response.nextSyncToken); the value of the property afterwards
NewToken(old, nextSyncToken) ==
  IF nextSyncToken # Undefined THEN nextSyncToken ELSE old

(***************************************************************************)
(* AdminCard.handleSyncEvents -> gasSyncManager.syncCalendarToBigQuery,    *)
(* one action per step of the invocation r                                 *)
(***************************************************************************)
\* syncCalendarToBigQuery: const syncToken = getSyncToken()
SyncBegin(r) ==
  /\ run[r].pc = "idle"
  /\ clock < MaxClock
  /\ clock' = clock + 1
  /\ run' = [run EXCEPT ![r] = [IdleRun EXCEPT !.pc = "list", !.syncToken = token]]
  /\ UNCHANGED <<token, feed, warehouse, response, mapVars, catVars, auxVars>>

\* mutant: a failed list call is taken for a stale token and the token is
\* deleted
SyncList_ResetOnError(r) ==
  /\ run[r].pc = "list"
  /\ LET sent == RequestToken(run[r].syncToken)
         resp == EventsList(feed, sent)
     IN \/ /\ run' = [run EXCEPT ![r].pc = "save", ![r].sent = sent,
                                 ![r].events = resp.items,
                                 ![r].nextSyncToken = resp.nextSyncToken]
           /\ UNCHANGED <<response, token>>
        \/ /\ run' = [run EXCEPT ![r].pc = "done", ![r].sent = sent,
                                 ![r].outcome = "error", ![r].error = "list"]
           /\ response' = "syncError"
           /\ token' = Undefined
  /\ UNCHANGED <<feed, warehouse, clock, mapVars, catVars, auxVars>>

\* fetchCalendarEvents: build optionalArgs, Calendar.Events.list,
\* const events = response.items || []
SyncList(r) ==
  /\ run[r].pc = "list"
  /\ LET sent == RequestToken(run[r].syncToken)
         resp == EventsList(feed, sent)
     IN \/ /\ run' = [run EXCEPT ![r].pc = "save", ![r].sent = sent,
                                 ![r].events = resp.items,
                                 ![r].nextSyncToken = resp.nextSyncToken]
           /\ UNCHANGED response
        \/ \* the call throws; handleSyncEvents catches and answers the error
           /\ run' = [run EXCEPT ![r].pc = "done", ![r].sent = sent,
                                 ![r].outcome = "error", ![r].error = "list"]
           /\ response' = "syncError"
  /\ UNCHANGED <<token, feed, warehouse, clock, mapVars, catVars, auxVars>>

\* mutant: the token is stored only in the branch that synced events
SyncSave_OnlyWithEvents(r) ==
  /\ run[r].pc = "save"
  /\ IF Len(run[r].events) > 0
       THEN /\ token' = NewToken(token, run[r].nextSyncToken)
            /\ run' = [run EXCEPT ![r].pc = "map"]
            /\ UNCHANGED response
       ELSE /\ UNCHANGED token
            /\ run' = [run EXCEPT ![r].pc = "done", ![r].outcome = "success"]
            /\ response' = "syncOk"
  /\ UNCHANGED <<feed, warehouse, clock, mapVars, catVars, auxVars>>

\* mutant: the token stored is the position the change log has reached when
\* the property is written, not the one of the response
SyncSave_TokenNow(r) ==
  /\ run[r].pc = "save"
  /\ token' = NewToken(token, IF run[r].nextSyncToken # Undefined
                                THEN Some(Len(feed)) ELSE Undefined)
  /\ IF Len(run[r].events) > 0
       THEN /\ run' = [run EXCEPT ![r].pc = "map"]
            /\ UNCHANGED response
       ELSE /\ run' = [run EXCEPT ![r].pc = "done", ![r].outcome = "success"]
            /\ response' = "syncOk"
  /\ UNCHANGED <<feed, warehouse, clock, mapVars, catVars, auxVars>>

\* fetchCalendarEvents: if (response.nextSyncToken) setProperty('SYNC_TOKEN');
\* return events; then syncCalendarToBigQuery: if (events.length > 0)
SyncSave(r) ==
  /\ run[r].pc = "save"
  /\ token' = NewToken(token, run[r].nextSyncToken)
  /\ IF Len(run[r].events) > 0
       THEN /\ run' = [run EXCEPT ![r].pc = "map"]
            /\ UNCHANGED response
       ELSE /\ run' = [run EXCEPT ![r].pc = "done", ![r].outcome = "success"]
            /\ response' = "syncOk"
  /\ UNCHANGED <<feed, warehouse, clock, mapVars, catVars, auxVars>>

\* addTimestamp(events), then the events.map of insertEventsIntoBigQuery
SyncMap(r) ==
  /\ run[r].pc = "map"
  /\ LET enrichedEvents == addTimestamp(run[r].events, clock)
         mapped == MapRows(enrichedEvents)
     IN IF mapped.threw
          THEN /\ run' = [run EXCEPT ![r].pc = "done", ![r].events = enrichedEvents,
                                     ![r].outcome = "error", ![r].error = "map"]
               /\ response' = "syncError"
          ELSE /\ run' = [run EXCEPT ![r].pc = "insert", ![r].events = enrichedEvents,
                                     ![r].rows = mapped.rows]
               /\ UNCHANGED response
  /\ UNCHANGED <<token, feed, warehouse, clock, mapVars, catVars, auxVars>>

\* the rows of a batch that the warehouse did not reject, in order
Accepted(rows, rejected) ==
  LET keep == Ascending((1..Len(rows)) \ rejected)
  IN [k \in 1..Len(keep) |-> rows[keep[k]]]

\* BigQuery.Tabledata.insertAll, if (response.insertErrors) console.error,
\* updateSyncToken() (which does nothing), return to handleSyncEvents
SyncInsert(r) ==
  /\ run[r].pc = "insert"
  /\ \/ \E rejected \in SUBSET (1..Len(run[r].rows)) :
          /\ warehouse' = warehouse \o Accepted(run[r].rows, rejected)
          /\ run' = [run EXCEPT ![r].pc = "done", ![r].appended = TRUE,
                                ![r].insertErrors = (rejected # {}),
                                ![r].outcome = "success"]
          /\ response' = "syncOk"
     \/ \* the call throws; handleSyncEvents catches and answers the error
        /\ run' = [run EXCEPT ![r].pc = "done", ![r].outcome = "error",
                              ![r].error = "insert"]
        /\ response' = "syncError"
        /\ UNCHANGED warehouse
  /\ UNCHANGED <<token, feed, clock, mapVars, catVars, auxVars>>

\* the invocation has returned its response; its locals are gone
SyncReturn(r) ==
  /\ run[r].pc = "done"
  /\ run' = [run EXCEPT ![r] = IdleRun]
  /\ UNCHANGED <<token, feed, warehouse, clock, response, mapVars, catVars, auxVars>>

(***************************************************************************)
(* AdminCard.handleResetSync -> gasSyncManager.resetSyncToken              *)
(***************************************************************************)
\* mutant: the property deleted is not the one the token is stored under
resetSyncToken_Keeps ==
  /\ Quiet
  /\ token' = token
  /\ response' = "resetOk"
  /\ UNCHANGED <<feed, warehouse, clock, run, mapVars, catVars, auxVars>>

resetSyncToken ==
  /\ Quiet
  /\ token' = Undefined
  /\ response' = "resetOk"
  /\ UNCHANGED <<feed, warehouse, clock, run, mapVars, catVars, auxVars>>

(***************************************************************************)
(* Specification: invocations run one at a time, to completion             *)
(***************************************************************************)
Serial == {1}

Next ==
  \/ Mutate
  \/ resetSyncToken
  \/ \E r \in Serial : SyncBegin(r)
  \/ \E r \in Serial : SyncList(r)
  \/ \E r \in Serial : SyncSave(r)
  \/ \E r \in Serial : SyncMap(r)
  \/ \E r \in Serial : SyncInsert(r)
  \/ \E r \in Serial : SyncReturn(r)

Spec == Init /\ [][Next]_vars


(***************************************************************************)
(* Specification of the row mapping alone: one event drawn from every      *)
(* combination of status, times, extended properties, present text fields  *)
(* and Categories text, handed to addTimestamp and the row mapping         *)
(***************************************************************************)
\* all text fields present or all missing, up to MaxMix exceptions
PresentSets ==
  {S \in SUBSET TextFields :
     Cardinality(S) <= MaxMix \/ Cardinality(TextFields \ S) <= MaxMix}

CategoriesValues == {Undefined} \cup {Some(t) : t \in Texts}

\* every Categories value with the text fields all present or all missing,
\* and every set of present text fields without and with valid Categories
AllEvents ==
  {MkEvent(1, st, ti, ext, present, cats) :
     st \in {"confirmed", "cancelled"}, ti \in {"none", "dateTime", "date"},
     ext \in {"none", "noshared", "shared"}, present \in {{}, TextFields},
     cats \in CategoriesValues}
  \cup
  {MkEvent(1, st, ti, ext, present, cats) :
     st \in {"confirmed", "cancelled"}, ti \in {"none", "dateTime", "date"},
     ext \in {"none", "noshared", "shared"}, present \in PresentSets,
     cats \in {Undefined, Some(<<"[", "str", "]">>)}}

InitMap ==
  /\ token = Undefined
  /\ feed = <<>>
  /\ warehouse = <<>>
  /\ clock = 0
  /\ run = [r \in Runs |-> IdleRun]
  /\ response = "none"
  /\ ev \in AllEvents
  /\ rec = NotMapped
  /\ ledger = <<>>
  /\ cache = Undefined
  /\ projects = <<>>
  /\ call = NoCall
  /\ config = Configured
  /\ prev = NoBatch
  /\ card = NoCard
  /\ calendar = NoCalendar

\* insertEventsIntoBigQuery(addTimestamp([ev])) up to the insertAll call
MapOne ==
  /\ rec.state = "input"
  /\ LET mapped == MapRows(addTimestamp(<<ev>>, clock))
     IN rec' = [state |-> IF mapped.threw THEN "threw" ELSE "mapped",
                rows |-> mapped.rows]
  /\ UNCHANGED <<token, feed, warehouse, clock, run, response, ev, catVars, auxVars>>

NextMap == MapOne

SpecMap == InitMap /\ [][NextMap]_vars


(***************************************************************************)
(* Specification of the catalog path: the sheet is edited, time passes,    *)
(* selection flows read the project data, the administrator clears the     *)
(* cache and runs AdminCard.handleSyncProjectData                          *)
(***************************************************************************)
\* the rows the sheet is made of: a complete row, with blanks around its
\* client, and a row without client
SheetRows ==
  {MkRow(Text("T1"), Text(" A "), Text("P"), Text("T"),
         DateCell(0), DateCell(3), Num(5), Text("x, y")),
   MkRow(Text("T2"), Empty, Text("P"), Text("T"),
         DateCell(0), DateCell(3), Text("5"), Empty)}

RECURSIVE SeqsOfLen(_, _)
SeqsOfLen(S, n) ==
  IF n = 0 THEN {<<>>}
  ELSE {Append(q, x) : q \in SeqsOfLen(S, n - 1), x \in S}

Ledgers == UNION {SeqsOfLen(SheetRows, n) : n \in 0..MaxLedger}

InitCatalog ==
  /\ token = Undefined
  /\ feed = <<>>
  /\ warehouse = <<>>
  /\ clock = 0
  /\ run = [r \in Runs |-> IdleRun]
  /\ response = "none"
  /\ ev = NoEvent
  /\ rec = NotMapped
  /\ ledger = <<>>
  /\ cache = Undefined
  /\ projects = <<>>
  /\ call = NoCall
  /\ config = Configured
  /\ prev = NoBatch
  /\ card = NoCard
  /\ calendar = NoCalendar

eventVars == <<token, feed, warehouse, run, mapVars, auxVars>>

\* no call into gasProjectInfoManager is under way
Idle == call.op = "none"

\* the owner of the sheet edits it
EditLedger ==
  /\ Idle
  /\ \E l \in Ledgers : l # ledger /\ ledger' = l
  /\ UNCHANGED <<eventVars, clock, response, cache, projects, call>>

\* time passes
Tick ==
  /\ Idle
  /\ clock < MaxTime
  /\ clock' = clock + 1
  /\ UNCHANGED <<eventVars, response, ledger, cache, projects, call>>

\* a selection flow reads the project data: fetchData()
ReadData ==
  /\ Idle
  /\ LET got == fetchData(cache, ledger, clock)
     IN /\ cache' = got.cache
        /\ call' = [NoCall EXCEPT !.op = "fetchData", !.now = clock,
                                  !.before = fetchFromCache(cache, clock),
                                  !.data = got.data, !.read = got.read]
  /\ UNCHANGED <<eventVars, clock, response, ledger, projects>>

\* mutant: the entry removed is not the one the data is cached under
clearCache_Keeps ==
  /\ Idle
  /\ cache' = cache
  /\ call' = [NoCall EXCEPT !.op = "clearCache", !.now = clock,
                            !.before = fetchFromCache(cache, clock)]
  /\ UNCHANGED <<eventVars, clock, response, ledger, projects>>

\* clearCache(): cache.remove(cacheKey)
clearCache ==
  /\ Idle
  /\ cache' = Undefined
  /\ call' = [NoCall EXCEPT !.op = "clearCache", !.now = clock,
                            !.before = fetchFromCache(cache, clock)]
  /\ UNCHANGED <<eventVars, clock, response, ledger, projects>>

\* AdminCard.handleSyncProjectData with syncToBigQuery starting from the
\* cache c0: fetchData, the row mapping, bigQueryManager.insertRows, then
\* clearCache and the success response, or the catch and the error response
SyncProjectDataFrom(c0) ==
  /\ Idle
  /\ clock < MaxTime
  /\ Len(projects) + Len(ledger) <= MaxTable
  /\ clock' = clock + 1
  /\ LET got == fetchData(c0, ledger, clock')
         mapped == ProjectRows(got.data, clock')
         base == [NoCall EXCEPT !.op = "syncProjectData", !.now = clock',
                                !.before = fetchFromCache(cache, clock'),
                                !.data = got.data, !.read = got.read]
     IN \/ \* reading the sheet throws; nothing was cached
           /\ got.read
           /\ cache' = c0
           /\ call' = [base EXCEPT !.data = <<>>, !.outcome = "error",
                                   !.error = "read"]
           /\ response' = "projectsError"
           /\ UNCHANGED projects
        \/ \* data.map throws for a row
           /\ mapped.threw
           /\ cache' = got.cache
           /\ call' = [base EXCEPT !.outcome = "error", !.error = mapped.error,
                                   !.index = mapped.index]
           /\ response' = "projectsError"
           /\ UNCHANGED projects
        \/ \* BigQuery.Tabledata.insertAll throws
           /\ ~mapped.threw
           /\ cache' = got.cache
           /\ call' = [base EXCEPT !.outcome = "error", !.error = "insert",
                                   !.rows = mapped.rows, !.submitted = TRUE]
           /\ response' = "projectsError"
           /\ UNCHANGED projects
        \/ \* insertAll answers; insertRows throws when it reports insertErrors
           /\ ~mapped.threw
           /\ \E rejected \in SUBSET (1..Len(mapped.rows)) :
                /\ projects' = projects \o Accepted(mapped.rows, rejected)
                /\ IF rejected # {}
                     THEN /\ cache' = got.cache
                          /\ call' = [base EXCEPT !.outcome = "error",
                                                  !.error = "insertErrors",
                                                  !.rows = mapped.rows,
                                                  !.submitted = TRUE,
                                                  !.rejected = rejected]
                          /\ response' = "projectsError"
                     ELSE /\ cache' = Undefined
                          /\ call' = [base EXCEPT !.outcome = "success",
                                                  !.rows = mapped.rows,
                                                  !.submitted = TRUE]
                          /\ response' = "projectsOk"
  /\ UNCHANGED <<eventVars, ledger>>

\* mutant: syncToBigQuery does not clear the cache before it fetches
handleSyncProjectData_NoClear == SyncProjectDataFrom(cache)

\* syncToBigQuery: clearCache(); const data = fetchData(); ...
handleSyncProjectData == SyncProjectDataFrom(Undefined)

\* the call has returned; what it did is no longer looked at
CallReturn ==
  /\ ~Idle
  /\ call' = NoCall
  /\ UNCHANGED <<eventVars, clock, response, ledger, cache, projects>>

NextCatalog ==
  \/ CallReturn
  \/ EditLedger
  \/ Tick
  \/ ReadData
  \/ clearCache
  \/ handleSyncProjectData

SpecCatalog == InitCatalog /\ [][NextCatalog]_vars

(***************************************************************************)
(* Specification of the active views: a sheet and a moment drawn from      *)
(* bounded sets, the data cached or not, and the views computed over it    *)
(***************************************************************************)
\* the moments: every instant of three days
ViewTimes == 0..(3 * DayLen - 1)

\* a validity bound: missing, no date, or an instant of the middle day or
\* the first instant of the last day
BoundCells ==
  {Empty, Text("n/a"), DateCell(DayLen), DateCell(DayLen + 1),
   DateCell(2 * DayLen)}

\* the client and project of a row: either may be missing
ClientProjects ==
  {<<Text("A"), Text("P")>>, <<Text("A"), Text("Q")>>, <<Text("B"), Text("P")>>,
   <<Empty, Text("P")>>, <<Text("A"), Empty>>}

VariedRows ==
  {MkRow(Text("T1"), cp[1], cp[2], Text("T"), s, e, Num(5), Empty) :
     cp \in ClientProjects, s \in BoundCells, e \in BoundCells}

\* the rows around the varied row: one always active, one active on the
\* middle day
SiblingRows ==
  {MkRow(Text("T2"), Text("A"), Text("P"), Text("U"), Empty, Empty, Num(5), Empty),
   MkRow(Text("T3"), Text("B"), Text("Q"), Text("V"),
         DateCell(DayLen), DateCell(DayLen + 1), Num(5), Empty)}

\* the sheets: at most MaxLedger rows, at most one of them a varied row
ViewLedgers ==
  UNION {SeqsOfLen(SiblingRows, n) : n \in 0..MaxLedger}
  \cup
  UNION {{[q EXCEPT ![i] = v] : q \in SeqsOfLen(SiblingRows, n),
                                 i \in 1..n, v \in VariedRows} :
         n \in 1..MaxLedger}

InitViews ==
  /\ token = Undefined
  /\ feed = <<>>
  /\ warehouse = <<>>
  /\ clock \in ViewTimes
  /\ run = [r \in Runs |-> IdleRun]
  /\ response = "none"
  /\ ev = NoEvent
  /\ rec = NotMapped
  /\ ledger \in ViewLedgers
  /\ cache \in {Undefined, CachePut(JSONstringify(ledger), clock)}
  /\ projects = <<>>
  /\ call = NoCall
  /\ config = Configured
  /\ prev = NoBatch
  /\ card = NoCard
  /\ calendar = NoCalendar

\* a selection flow asks for the tree of active projects
ActiveProjectsTree ==
  /\ LET got == fetchData(cache, ledger, clock)
     IN /\ cache' = got.cache
        /\ call' = [NoCall EXCEPT !.op = "getActiveProjectsTree",
                                  !.now = clock, !.data = got.data,
                                  !.read = got.read,
                                  !.tree = getActiveProjectsTree(got.data, clock)]
  /\ UNCHANGED <<eventVars, clock, response, ledger, projects>>

\* a selection flow asks for the active clients
ActiveClients ==
  /\ LET got == fetchData(cache, ledger, clock)
     IN /\ cache' = got.cache
        /\ call' = [NoCall EXCEPT !.op = "getActiveClients",
                                  !.now = clock, !.data = got.data,
                                  !.read = got.read,
                                  !.list = getActiveClients(got.data, clock)]
  /\ UNCHANGED <<eventVars, clock, response, ledger, projects>>

\* a caller asks for the active projects
ActiveProjects ==
  /\ LET got == fetchData(cache, ledger, clock)
     IN /\ cache' = got.cache
        /\ call' = [NoCall EXCEPT !.op = "getActiveProjects",
                                  !.now = clock, !.data = got.data,
                                  !.read = got.read,
                                  !.list = getActiveProjects(got.data, clock)]
  /\ UNCHANGED <<eventVars, clock, response, ledger, projects>>

NextViews ==
  \/ ActiveProjectsTree
  \/ ActiveClients
  \/ ActiveProjects

SpecViews == InitViews /\ [][NextViews]_vars

(***************************************************************************)
(* Specification of the complete tree: a sheet of rows of a few clients    *)
(* and projects, in every order, cached or not, and getNestedStructure     *)
(***************************************************************************)
\* rows of the sheet handed to getNestedStructure
MaxTreeRows == 3

\* the client and project of a row of the tree sheet; a client may be missing
TreeKeys ==
  {<<c, p>> : c \in {Text("A"), Text("B"), Empty}, p \in {Text("P"), Text("Q")}}

\* the sheets: the row at position i has the code i
TreeLedgers ==
  UNION {{[i \in 1..n |->
            MkRow(Num(i), q[i][1], q[i][2], Text("T"), Empty, Empty, Num(5), Empty)] :
          q \in SeqsOfLen(TreeKeys, n)} : n \in 0..MaxTreeRows}

InitTree ==
  /\ token = Undefined
  /\ feed = <<>>
  /\ warehouse = <<>>
  /\ clock = 0
  /\ run = [r \in Runs |-> IdleRun]
  /\ response = "none"
  /\ ev = NoEvent
  /\ rec = NotMapped
  /\ ledger \in TreeLedgers
  /\ cache \in {Undefined, CachePut(JSONstringify(ledger), clock)}
  /\ projects = <<>>
  /\ call = NoCall
  /\ config = Configured
  /\ prev = NoBatch
  /\ card = NoCard
  /\ calendar = NoCalendar

\* a caller asks for the complete tree
NestedStructure ==
  /\ LET got == fetchData(cache, ledger, clock)
     IN /\ cache' = got.cache
        /\ call' = [NoCall EXCEPT !.op = "getNestedStructure",
                                  !.now = clock, !.data = got.data,
                                  !.read = got.read,
                                  !.tree = getNestedStructure(got.data)]
  /\ UNCHANGED <<eventVars, clock, response, ledger, projects>>

NextTree == NestedStructure

SpecTree == InitTree /\ [][NextTree]_vars

(***************************************************************************)
(* Specification of the catalog row mapping: a sheet with one row drawn    *)
(* from every combination of missing mandatory cells, validity bounds that *)
(* are no dates, and rate and budgeted hours cells of every type, alone or *)
(* next to a complete row, handed to AdminCard.handleSyncProjectData       *)
(***************************************************************************)
\* a validity bound: a date, missing, or a text that is no date
DateCells == {DateCell(0), Empty, Text("n/a")}

\* the cells of the columns Rate and Budgeted Hours
NumberCells ==
  {Empty, Num(0), Num(5), Text("0"), Text("5"), Text("abc"), Bool(TRUE)}

CompleteRow ==
  MkRow(Text("T1"), Text(" A "), Text("P"), Text("T"),
        DateCell(0), DateCell(3), Num(5), Text("x, y"))

\* rows with any of the mandatory cells missing
MandatoryRows ==
  {MkRow(code, client, project, task, start, end, Num(5), Empty) :
     code \in {Text("T2"), Empty}, client \in {Text("B"), Empty},
     project \in {Text("Q"), Empty}, task \in {Text("U"), Empty},
     start \in DateCells, end \in DateCells}

\* complete rows with every rate and budgeted hours cell
NumberRows ==
  {[MkRow(Text("T3"), Text("C"), Text("R"), Text("V"),
          DateCell(0), DateCell(3), rate, Empty)
      EXCEPT !.budgetedHours = budgetedHours] :
     rate \in NumberCells, budgetedHours \in NumberCells}

RowLedgers ==
  UNION {{<<v>>, <<CompleteRow, v>>, <<v, CompleteRow>>} :
         v \in MandatoryRows \cup NumberRows}

InitRows ==
  /\ token = Undefined
  /\ feed = <<>>
  /\ warehouse = <<>>
  /\ clock = 0
  /\ run = [r \in Runs |-> IdleRun]
  /\ response = "none"
  /\ ev = NoEvent
  /\ rec = NotMapped
  /\ ledger \in RowLedgers
  /\ cache = Undefined
  /\ projects = <<>>
  /\ call = NoCall
  /\ config = Configured
  /\ prev = NoBatch
  /\ card = NoCard
  /\ calendar = NoCalendar

NextRows ==
  \/ CallReturn
  \/ handleSyncProjectData

SpecRows == InitRows /\ [][NextRows]_vars

(***************************************************************************)
(* Specification of repeated catalog syncs: the sheet stays as it is, time *)
(* passes, selection flows fill the cache, the administrator clears it,    *)
(* and AdminCard.handleSyncProjectData runs again and again                *)
(***************************************************************************)
\* the rows of the sheet: a complete row and a row without From
IdemRows ==
  {CompleteRow,
   MkRow(Text("T2"), Text("B"), Text("Q"), Text("U"),
         Empty, DateCell(3), Text("5"), Empty)}

IdemLedgers == UNION {SeqsOfLen(IdemRows, n) : n \in 0..MaxLedger}

\* the cache is empty or holds a snapshot of the sheet as it is or as it was
\* before its rows were entered
InitIdem ==
  /\ token = Undefined
  /\ feed = <<>>
  /\ warehouse = <<>>
  /\ clock = 0
  /\ run = [r \in Runs |-> IdleRun]
  /\ response = "none"
  /\ ev = NoEvent
  /\ rec = NotMapped
  /\ ledger \in IdemLedgers
  /\ cache \in {Undefined, CachePut(JSONstringify(ledger), clock),
                CachePut(JSONstringify(<<>>), clock)}
  /\ projects = <<>>
  /\ call = NoCall
  /\ config = Configured
  /\ prev = NoBatch
  /\ card = NoCard
  /\ calendar = NoCalendar

\* handleSyncProjectData has returned; the batch it submitted is remembered
SyncProjectDataReturn ==
  /\ call.op = "syncProjectData"
  /\ prev' = [submitted |-> call.submitted, data |-> call.data,
              rows |-> call.rows]
  /\ call' = NoCall
  /\ UNCHANGED <<token, feed, warehouse, run, mapVars, config, uiVars,
                 clock, response, ledger, cache, projects>>

NextIdem ==
  \/ SyncProjectDataReturn
  \/ CallReturn
  \/ Tick
  \/ ReadData
  \/ clearCache
  \/ handleSyncProjectData

SpecIdem == InitIdem /\ [][NextIdem]_vars

(***************************************************************************)
(* Specification of the admin card with its configuration: the setup, the  *)
(* reset of the configuration, and the two syncs, each entered through     *)
(* AdminCard, which reads the configuration and builds the sync manager    *)
(***************************************************************************)
\* mutant: gasSyncManager does not look at calendarId
SyncManagerThrows_NoCalendar(c) == ~c.PROJECT_ID \/ ~c.DATASET_ID

\* gasSyncManager: if (!projectId || !datasetId || !tableId || !calendarId)
\* throw; tableId is 'time'
SyncManagerThrows(c) == ~c.PROJECT_ID \/ ~c.DATASET_ID \/ ~c.CALENDAR_ID

\* gasBigQueryManager: if (!projectId || !datasetId) throw
BigQueryManagerThrows(c) == ~c.PROJECT_ID \/ ~c.DATASET_ID

\* gasProjectInfoManager: if (!spreadsheetId) throw
ProjectInfoManagerThrows(c) == ~c.SPREADSHEET_ID

\* AdminCard: if (configManager.isInitialized()) syncManager =
\* gasSyncManager({...}), outside any try: the card itself throws
CardThrows(c) == c.IS_INITIALIZED /\ SyncManagerThrows(c)

\* the handler did nothing but answer
Answer(resp) ==
  /\ response' = resp
  /\ UNCHANGED <<token, feed, warehouse, clock, run, mapVars, catVars, auxVars>>

\* resetConfiguration: keysToDelete.forEach(deleteProperty), the first k
\* keys deleted
DeleteKeys(c, k) ==
  [key \in KeySet(ConfigKeys) |->
     c[key] /\ \A i \in 1..k : ConfigKeys[i] # key]

\* saveConfiguration: setProperties of the four identifiers
SetIdentifiers(c) ==
  [key \in KeySet(ConfigKeys) |-> IF key = "IS_INITIALIZED" THEN c[key] ELSE TRUE]

\* the calendar: two events, created one after the other
ConfigFeed ==
  <<CHOOSE e \in LiveShapes(1) : TRUE, CHOOSE e \in LiveShapes(2) : TRUE>>

InitConfig ==
  /\ token = Undefined
  /\ feed = ConfigFeed
  /\ warehouse = <<>>
  /\ clock = 0
  /\ run = [r \in Runs |-> IdleRun]
  /\ response = "none"
  /\ ev = NoEvent
  /\ rec = NotMapped
  /\ ledger = <<CompleteRow>>
  /\ cache = Undefined
  /\ projects = <<>>
  /\ call = NoCall
  /\ config = NotConfigured
  /\ prev = NoBatch
  /\ card = NoCard
  /\ calendar = NoCalendar

\* AdminCard.handleSetup -> configureApp -> saveConfiguration
AdminSetup ==
  /\ Quiet /\ Idle
  /\ IF CardThrows(config) THEN Answer("uncaught")
     ELSE /\ \/ \* every step succeeds
                /\ config' = Configured
                /\ response' = "setupOk"
             \/ \* no Project ID was entered, or a step before
                \* saveConfiguration throws
                /\ config' = config
                /\ response' = "setupError"
             \/ \* setInitialized throws after setProperties
                /\ config' = SetIdentifiers(config)
                /\ response' = "setupError"
          /\ UNCHANGED <<token, feed, warehouse, clock, run, mapVars, catVars, prev, uiVars>>

\* mutant: the reset of the configuration removes the sync token as well
AdminResetConfig_AlsoToken ==
  /\ Quiet /\ Idle
  /\ IF CardThrows(config) THEN Answer("uncaught")
     ELSE /\ \E k \in 0..Len(ConfigKeys) :
               /\ config' = DeleteKeys(config, k)
               /\ response' = IF k = Len(ConfigKeys) THEN "resetConfigOk"
                               ELSE "resetConfigError"
               /\ token' = IF k = Len(ConfigKeys) THEN Undefined ELSE token
          /\ UNCHANGED <<feed, warehouse, clock, run, mapVars, catVars, prev, uiVars>>

\* AdminCard.handleResetConfig -> resetConfiguration; deleteProperty may
\* throw after k keys
AdminResetConfig ==
  /\ Quiet /\ Idle
  /\ IF CardThrows(config) THEN Answer("uncaught")
     ELSE /\ \E k \in 0..Len(ConfigKeys) :
               /\ config' = DeleteKeys(config, k)
               /\ response' = IF k = Len(ConfigKeys) THEN "resetConfigOk"
                               ELSE "resetConfigError"
          /\ UNCHANGED <<token, feed, warehouse, clock, run, mapVars, catVars, prev, uiVars>>

\* mutant: handleResetSync does not look at syncManager
AdminResetSync_Unchecked ==
  /\ Idle
  /\ IF CardThrows(config) THEN Quiet /\ Answer("uncaught")
     ELSE resetSyncToken

\* AdminCard with the event resetSync: handleResetSync
AdminResetSync ==
  /\ Idle
  /\ IF CardThrows(config) THEN Quiet /\ Answer("uncaught")
     ELSE IF ~config.IS_INITIALIZED THEN Quiet /\ Answer("resetError")
     ELSE resetSyncToken

\* AdminCard with the event syncEvents: handleSyncEvents
AdminSyncEvents(r) ==
  /\ Idle
  /\ run[r].pc = "idle"
  /\ IF CardThrows(config) THEN Answer("uncaught")
     ELSE IF ~config.IS_INITIALIZED THEN Answer("syncError")
     ELSE SyncBegin(r)

\* AdminCard with the event syncProjectData: handleSyncProjectData
AdminSyncProjectData ==
  /\ Quiet /\ Idle
  /\ IF CardThrows(config) THEN Answer("uncaught")
     ELSE IF ~config.IS_INITIALIZED THEN Answer("projectsError")
     ELSE IF BigQueryManagerThrows(config) \/ ProjectInfoManagerThrows(config)
       THEN Answer("projectsError")
     ELSE handleSyncProjectData

NextConfig ==
  \/ AdminSetup
  \/ AdminResetConfig
  \/ AdminResetSync
  \/ AdminSyncProjectData
  \/ CallReturn
  \/ \E r \in Serial : AdminSyncEvents(r)
  \/ \E r \in Serial : SyncList(r)
  \/ \E r \in Serial : SyncSave(r)
  \/ \E r \in Serial : SyncMap(r)
  \/ \E r \in Serial : SyncInsert(r)
  \/ \E r \in Serial : SyncReturn(r)

SpecConfig == InitConfig /\ [][NextConfig]_vars

(***************************************************************************)
(* Specification of gasConfigManager alone: saveConfiguration,             *)
(* configureApp and resetConfiguration called in any order, with any       *)
(* identifiers given and any service call failing                          *)
(***************************************************************************)
\* the identifiers saveConfiguration requires
Identifiers == {"SPREADSHEET_ID", "CALENDAR_ID", "PROJECT_ID", "DATASET_ID"}

\* the steps of configureApp, in the order of the code
SetupSteps ==
  <<"createDataset", "createTable time", "createTable projects",
    "createCalendar", "createSheetCopy", "saveConfiguration">>

\* what the manager does not touch
setupFrame ==
  <<token, feed, warehouse, clock, run, response, mapVars, ledger, cache,
    projects, prev, uiVars>>

InitSetup ==
  /\ token = Undefined
  /\ feed = <<>>
  /\ warehouse = <<>>
  /\ clock = 0
  /\ run = [r \in Runs |-> IdleRun]
  /\ response = "none"
  /\ ev = NoEvent
  /\ rec = NotMapped
  /\ ledger = <<>>
  /\ cache = Undefined
  /\ projects = <<>>
  /\ call = NoCall
  /\ config = NotConfigured
  /\ prev = NoBatch
  /\ card = NoCard
  /\ calendar = NoCalendar

\* the two writes of saveConfiguration, from the properties c: setProperties
\* throws, or setInitialized throws after it, or both succeed
SaveOutcomes(c) ==
  {[config |-> c, ok |-> FALSE],
   [config |-> SetIdentifiers(c), ok |-> FALSE],
   [config |-> Configured, ok |-> TRUE]}

\* saveConfiguration(config) with the identifiers in given present
saveConfiguration(given) ==
  /\ Idle
  /\ IF given # Identifiers
       THEN \* if (!spreadsheetId || !calendarId || !projectId || !datasetId) throw
            /\ config' = config
            /\ call' = [NoCall EXCEPT !.op = "saveConfiguration",
                                      !.outcome = "threw", !.error = "required"]
       ELSE \E o \in SaveOutcomes(config) :
              /\ config' = o.config
              /\ call' = [NoCall EXCEPT !.op = "saveConfiguration",
                                        !.outcome = IF o.ok THEN "success" ELSE "threw",
                                        !.error = IF o.ok THEN "none" ELSE "service"]
  /\ UNCHANGED setupFrame

\* configureApp(config): projectId given or not; the steps run one after the
\* other until one throws
configureApp(projectId) ==
  /\ Idle
  /\ IF ~projectId
       THEN \* if (!projectId) throw, before the try
            /\ config' = config
            /\ call' = [NoCall EXCEPT !.op = "configureApp", !.outcome = "threw",
                                      !.error = "required"]
       ELSE \/ \* one of the first five steps throws: catch, success: false
               \E n \in 1..(Len(SetupSteps) - 1) :
                 /\ config' = config
                 /\ call' = [NoCall EXCEPT !.op = "configureApp",
                                           !.outcome = "failure", !.error = "service",
                                           !.index = n,
                                           !.list = SubSeq(SetupSteps, 1, n)]
            \/ \* the five steps succeed, saveConfiguration runs
               \E o \in SaveOutcomes(config) :
                 /\ config' = o.config
                 /\ call' = [NoCall EXCEPT !.op = "configureApp",
                                           !.outcome = IF o.ok THEN "success" ELSE "failure",
                                           !.error = IF o.ok THEN "none" ELSE "service",
                                           !.index = IF o.ok THEN 0 ELSE Len(SetupSteps),
                                           !.list = SetupSteps]
  /\ UNCHANGED setupFrame

\* resetConfiguration(): deleteProperty key by key; it may throw after k keys
resetConfiguration ==
  /\ Idle
  /\ \E k \in 0..Len(ConfigKeys) :
       /\ config' = DeleteKeys(config, k)
       /\ call' = [NoCall EXCEPT !.op = "resetConfiguration",
                                 !.outcome = IF k = Len(ConfigKeys) THEN "success"
                                             ELSE "threw",
                                 !.error = IF k = Len(ConfigKeys) THEN "none"
                                           ELSE "service",
                                 !.index = k]
  /\ UNCHANGED setupFrame

NextSetup ==
  \/ CallReturn
  \/ resetConfiguration
  \/ \E given \in SUBSET Identifiers : saveConfiguration(given)
  \/ \E projectId \in BOOLEAN : configureApp(projectId)

SpecSetup == InitSetup /\ [][NextSetup]_vars

(***************************************************************************)
(* Specification of two invocations of handleSyncEvents that nothing       *)
(* serialises: each runs once, their steps interleave with each other and  *)
(* with the edits of the calendar                                          *)
(***************************************************************************)
\* the calendar's users edit the calendar while invocations are under way
MutateDuring ==
  /\ Len(feed) < MaxFeed
  /\ \E e \in NextMutations(feed) : feed' = Append(feed, e)
  /\ UNCHANGED <<token, warehouse, clock, run, response, mapVars, catVars, auxVars>>

NextRace ==
  \/ MutateDuring
  \/ \E r \in Runs : SyncBegin(r)
  \/ \E r \in Runs : SyncList(r)
  \/ \E r \in Runs : SyncSave(r)
  \/ \E r \in Runs : SyncMap(r)
  \/ \E r \in Runs : SyncInsert(r)

SpecRace == Init /\ [][NextRace]_vars

(***************************************************************************)
(* gasCalendarManager: the times of an event and the calendar provider     *)
(***************************************************************************)
\* the instants of the events, and how many requests a calendar receives
MaxStamp == 2
MaxRequests == 2

\* a value passed as startTime or endTime: nothing (NoTime), null, the
\* number 0, a text, an Invalid Date, or the Date of an instant
DateOf(t) == [k |-> "date", n |-> t]
InvalidDate == [k |-> "invalid", n |-> 0]
TimeValues ==
  {NoTime, [k |-> "null", n |-> 0], [k |-> "zero", n |-> 0],
   [k |-> "text", n |-> 0], InvalidDate}
  \cup {DateOf(t) : t \in 0..MaxStamp}

\* value instanceof Date
InstanceOfDate(v) == v.k \in {"date", "invalid"}
\* the truthiness of the value: a Date is an object, also an invalid one
TruthyTime(v) == v.k \in {"text", "date", "invalid"}
\* value.toISOString() throws a RangeError on an Invalid Date
toISOStringThrows(v) == v.k = "invalid"

\* validateEventTimes throws: a value is no Date, or start >= end (false
\* when either is an Invalid Date, whose time is NaN)
validateEventTimes(start, end) ==
  \/ ~InstanceOfDate(start)
  \/ ~InstanceOfDate(end)
  \/ (start.k = "date" /\ end.k = "date" /\ start.n >= end.n)

\* the calendar after createEvent: the throw for a missing calendarId or
\* for the times, else Calendar.Events.insert of the resource, which the
\* provider accepts or fails
createEventOn(cal, activeCalendarId, startTime, endTime, accepted) ==
  LET this == [NoManagerCall EXCEPT !.op = "createEvent",
                                    !.startTime = startTime,
                                    !.endTime = endTime]
  IN IF \/ ~activeCalendarId
        \/ validateEventTimes(startTime, endTime)
        \/ toISOStringThrows(startTime)
        \/ toISOStringThrows(endTime)
       THEN [cal EXCEPT !.call = [this EXCEPT !.threw = TRUE]]
     ELSE
       LET request == [op |-> "insert", eventId |-> Len(cal.events) + 1,
                       start |-> Some(startTime.n), end |-> Some(endTime.n)]
       IN [events |-> IF accepted
                        THEN Append(cal.events,
                                    [start |-> startTime.n, end |-> endTime.n])
                        ELSE cal.events,
           requests |-> Append(cal.requests, request),
           call |-> [this EXCEPT !.threw = ~accepted]]

\* the calendar after updateEvent: the throw for a missing calendarId, for
\* an event getEvent does not return, or for the times, else
\* Calendar.Events.patch of the resource
updateEventOn(cal, activeCalendarId, eventId, startTime, endTime, accepted) ==
  LET this == [NoManagerCall EXCEPT !.op = "updateEvent", !.eventId = eventId,
                                    !.startTime = startTime,
                                    !.endTime = endTime]
      both == TruthyTime(startTime) /\ TruthyTime(endTime)
      one == TruthyTime(startTime) \/ TruthyTime(endTime)
  IN IF \/ ~activeCalendarId
        \/ eventId \notin 1..Len(cal.events)
        \/ both /\ \/ validateEventTimes(startTime, endTime)
                   \/ toISOStringThrows(startTime)
                   \/ toISOStringThrows(endTime)
        \/ ~both /\ one
       THEN [cal EXCEPT !.call = [this EXCEPT !.threw = TRUE]]
     ELSE
       LET request == [op |-> "patch", eventId |-> eventId,
                       start |-> IF both THEN Some(startTime.n) ELSE Undefined,
                       end |-> IF both THEN Some(endTime.n) ELSE Undefined]
       IN [events |-> IF accepted /\ both
                        THEN [cal.events EXCEPT ![eventId] =
                                [start |-> startTime.n, end |-> endTime.n]]
                        ELSE cal.events,
           requests |-> Append(cal.requests, request),
           call |-> [this EXCEPT !.threw = ~accepted]]

(***************************************************************************)
(* HomepageCard: the client, project and task a user selects               *)
(***************************************************************************)
\* obj[key] || {} (or || []): the value under the key, empty when there is none
ValueOfKey(obj, key) ==
  IF IndexOfKey(obj, key) = 0 THEN <<>> ELSE obj[IndexOfKey(obj, key)].value

\* Object.keys(obj)
ObjectKeys(obj) == [i \in 1..Len(obj) |-> obj[i].key]

\* the value a cell gives a form field: its text, nothing when it is empty
FieldOf(c) == IF CellTruthy(c) THEN Some(StringOf(c)) ELSE Undefined

\* tasks.find(t => t.task === task)
FindTask(tasks, task) ==
  task # Undefined /\ \E i \in 1..Len(tasks) : tasks[i].task = Text(task[1])

\* the items of the task selection input: t.task of every entry
TaskItems(tasks) == [i \in 1..Len(tasks) |-> StringOf(tasks[i].task)]

\* buildWorkDetailsSection: the project and the task it leaves selected and
\* the items of the Project and Task selection inputs it adds (none when the
\* section shows a text instead)
buildWorkDetailsSection(nestedItems, client, project, task) ==
  IF ~Truthy(client)
    THEN [project |-> project, task |-> task, projects |-> <<>>, tasks |-> <<>>]
  ELSE
    LET selectedClient == ValueOfKey(nestedItems, client[1])
        projectNames == ObjectKeys(selectedClient)
        project1 == IF Truthy(project) \/ projectNames = <<>> THEN project
                    ELSE Some(projectNames[1])
        tasks == IF project1 = Undefined THEN <<>>
                 ELSE ValueOfKey(selectedClient, project1[1])
        cleared == IF Truthy(task) /\ ~FindTask(tasks, task) THEN Undefined
                   ELSE task
    IN IF Len(projectNames) = 1 THEN
         IF Len(tasks) = 1 THEN
           [project |-> project1,
            task |-> IF Truthy(task) THEN task ELSE FieldOf(tasks[1].task),
            projects |-> <<>>, tasks |-> <<>>]
         ELSE IF Len(tasks) > 1 THEN
           [project |-> project1, task |-> cleared,
            projects |-> <<>>, tasks |-> TaskItems(tasks)]
         ELSE
           [project |-> project1, task |-> task,
            projects |-> <<>>, tasks |-> <<>>]
       ELSE IF Len(projectNames) > 1 THEN
         IF Len(tasks) = 1 THEN
           [project |-> project1, task |-> FieldOf(tasks[1].task),
            projects |-> projectNames, tasks |-> <<>>]
         ELSE IF Len(tasks) > 1 THEN
           [project |-> project1, task |-> cleared,
            projects |-> projectNames, tasks |-> TaskItems(tasks)]
         ELSE
           [project |-> project1, task |-> task,
            projects |-> projectNames, tasks |-> <<>>]
       ELSE
         [project |-> project, task |-> task, projects |-> <<>>, tasks |-> <<>>]

\* buildEventActionsSection: isButtonEnabled = !!(client && project && task)
isButtonEnabled(client, project, task) ==
  Truthy(client) /\ Truthy(project) /\ Truthy(task)

\* the values the form of the displayed card sends for a selection input:
\* the item marked selected; a dropdown without one sends its first item or
\* nothing, radio buttons without one send nothing
Listed(items, v) == v # Undefined /\ \E i \in 1..Len(items) : items[i] = v[1]
DropdownValues(items, v) ==
  IF Listed(items, v) THEN {v}
  ELSE IF items = <<>> THEN {Undefined}
  ELSE {Undefined, Some(items[1])}
RadioValue(items, v) == IF Listed(items, v) THEN v ELSE Undefined

\* how many events a user of the homepage creates
MaxCreated == 1

\* what a user does with the displayed card: opens the homepage afresh,
\* changes the client, the project or the task to one of the listed items,
\* or presses Create Event when it is enabled; projectValues are the values
\* the Project input of the card may send
UserInputs(projectValues) ==
  {[event |-> Undefined, Client |-> Undefined, Project |-> Undefined,
    Task |-> Undefined]}
  \cup
  (IF card.op = "HomepageCard" /\ card.pc = "shown" THEN
     {[event |-> Some("inputChangeClient"), Client |-> Some(card.clientItems[i]),
       Project |-> p, Task |-> RadioValue(card.tasks, card.task)] :
        i \in 1..Len(card.clientItems), p \in projectValues}
     \cup
     {[event |-> Some("inputChangeProject"), Client |-> c,
       Project |-> Some(card.projects[i]),
       Task |-> RadioValue(card.tasks, card.task)] :
        i \in 1..Len(card.projects),
        c \in DropdownValues(card.clientItems, card.client)}
     \cup
     {[event |-> Some("inputChangeTask"), Client |-> c,
       Project |-> p, Task |-> Some(card.tasks[i])] :
        i \in 1..Len(card.tasks),
        c \in DropdownValues(card.clientItems, card.client),
        p \in projectValues}
     \cup
     (IF card.isButtonEnabled /\ Len(calendar.requests) < MaxCreated THEN
        {[event |-> Some("newEventSaveButton"), Client |-> c,
          Project |-> p, Task |-> RadioValue(card.tasks, card.task)] :
           c \in DropdownValues(card.clientItems, card.client),
           p \in projectValues}
      ELSE {})
   ELSE {})

(***************************************************************************)
(* Specification of the homepage card: a sheet of a few clients, the data  *)
(* cached or not and the cache possibly older than the sheet; a user opens *)
(* the card and changes client, project and task, while time passes and    *)
(* the cache is cleared                                                    *)
(***************************************************************************)
HomeRow(code, client, project, task) ==
  MkRow(Text(code), Text(client), Text(project), Text(task),
        Empty, Empty, Num(5), Empty)

HomeLedgers ==
  {<<HomeRow("T1", "A", "P", "T"), HomeRow("T2", "A", "P", "U"),
     HomeRow("T3", "A", "Q", "V"), HomeRow("T4", "B", "R", "W")>>,
   <<HomeRow("T4", "B", "R", "W"), HomeRow("T5", "C", "P", "T"),
     MkRow(Text("T6"), Empty, Text("Q"), Text("V"), Empty, Empty, Num(5), Empty),
     MkRow(Text("T7"), Text("D"), Text("S"), Text("X"),
           DateCell(DayLen), DateCell(DayLen), Num(5), Empty)>>,
   <<>>}

InitHome ==
  /\ token = Undefined
  /\ feed = <<>>
  /\ warehouse = <<>>
  /\ clock = 0
  /\ run = [r \in Runs |-> IdleRun]
  /\ response = "none"
  /\ ev = NoEvent
  /\ rec = NotMapped
  /\ ledger \in HomeLedgers
  /\ cache \in {Undefined} \cup {CachePut(JSONstringify(l), 0) : l \in HomeLedgers}
  /\ projects = <<>>
  /\ call = NoCall
  /\ config = Configured
  /\ prev = NoBatch
  /\ card = NoCard
  /\ calendar = NoCalendar

\* no card invocation is under way
NoInvocation == card.pc \in {"none", "shown"}

\* HomepageCard up to its read of the tree: the redirect to AdminCard when
\* the app is not initialized, else the selections taken from formInput and
\* nestedItems = projectInfoManager.getActiveProjectsTree(); a press of
\* Create Event leaves the displayed card as it is
HomepageCardOn(inputs) ==
  /\ NoInvocation
  /\ \E input \in inputs :
       IF ~config.IS_INITIALIZED
         THEN /\ card' = [NoCard EXCEPT !.op = "HomepageCard", !.pc = "shown",
                                        !.outcome = "AdminCard"]
              /\ cache' = cache
         ELSE LET got == fetchData(cache, ledger, clock)
              IN /\ cache' = got.cache
                 /\ card' = [(IF input.event = Some("newEventSaveButton")
                                THEN card ELSE NoCard) EXCEPT
                      !.op = "HomepageCard", !.pc = "dispatch",
                      !.event = input.event, !.client = input.Client,
                      !.project = input.Project, !.task = input.Task,
                      !.treeData = got.data,
                      !.nestedItems = getActiveProjectsTree(got.data, clock)]
  /\ UNCHANGED <<token, feed, warehouse, run, mapVars, config, prev, calendar,
                 clock, response, ledger, projects, call>>

\* the card of gas/cards: its Project input is a group of radio buttons
HomepageCard ==
  HomepageCardOn(UserInputs({RadioValue(card.projects, card.project)}))

\* buildUiCard, for no event and through handleInputChange: the client list
\* read in buildEventBasicsSection and the first client taken when none is
\* selected, buildWorkDetailsSection, buildEventActionsSection
buildUiCard ==
  /\ card.op = "HomepageCard" /\ card.pc = "dispatch"
  /\ card.event # Some("newEventSaveButton")
  /\ LET got == fetchData(cache, ledger, clock)
         listed == getActiveClients(got.data, clock)
         clientItems == [i \in 1..Len(listed) |-> StringOf(listed[i])]
         client == IF Len(clientItems) > 0 /\ ~Truthy(card.client)
                     THEN Some(clientItems[1]) ELSE card.client
         work == buildWorkDetailsSection(card.nestedItems, client,
                                         card.project, card.task)
     IN /\ cache' = got.cache
        /\ card' = [card EXCEPT
             !.pc = "shown", !.client = client,
             !.project = work.project, !.task = work.task,
             !.clientItems = clientItems, !.clientData = got.data,
             !.projects = work.projects, !.tasks = work.tasks,
             !.isButtonEnabled = isButtonEnabled(client, work.project, work.task),
             !.outcome = IF card.event = Undefined THEN "card"
                         ELSE "updateCard"]
  /\ UNCHANGED <<token, feed, warehouse, run, mapVars, config, prev, calendar,
                 clock, response, ledger, projects, call>>

\* roundedStart.getTime() + 60 * 60 * 1000, in the instants of the model
OneHour == 1

\* handleCreateEvent: the throw for a missing calendarId, else createEvent
\* from the hour of now to one hour later; the notification of the result
handleCreateEvent ==
  /\ card.op = "HomepageCard" /\ card.pc = "dispatch"
  /\ card.event = Some("newEventSaveButton")
  /\ \E accepted \in BOOLEAN :
       /\ calendar' = IF ~config.CALENDAR_ID THEN calendar
                      ELSE createEventOn(calendar, TRUE, DateOf(clock),
                                         DateOf(clock + OneHour), accepted)
       /\ card' = [card EXCEPT
            !.pc = "shown",
            !.outcome = IF ~config.CALENDAR_ID \/ calendar'.call.threw
                          THEN "createFailed" ELSE "created"]
  /\ UNCHANGED <<token, feed, warehouse, run, mapVars, config, prev,
                 clock, response, catVars>>

NextHome ==
  \/ HomepageCard
  \/ buildUiCard
  \/ handleCreateEvent
  \/ Tick
  \/ clearCache
  \/ CallReturn

SpecHome == InitHome /\ [][NextHome]_vars

(***************************************************************************)
(* Specification of the revision of HomepageCard that reapplies the        *)
(* default selections before it builds the card, under the same sheets,    *)
(* caches and users                                                        *)
(***************************************************************************)
\* applyDefaultSelections: the client, project and task it leaves selected
applyDefaultSelections(nestedItems, clientItems, client0, project0, task0) ==
  LET client == IF Len(clientItems) > 0 /\ ~Truthy(client0)
                  THEN Some(clientItems[1]) ELSE client0
  IN IF ~Truthy(client)
       THEN [client |-> client, project |-> project0, task |-> task0]
     ELSE
       LET selectedClient == ValueOfKey(nestedItems, client[1])
           projectNames == ObjectKeys(selectedClient)
       IN IF Len(projectNames) = 0
            THEN [client |-> client, project |-> project0, task |-> task0]
          ELSE
            LET project == IF ~Truthy(project0) \/ ~Listed(projectNames, project0)
                             THEN Some(projectNames[1]) ELSE project0
                tasks == ValueOfKey(selectedClient, project[1])
                task == IF Len(tasks) > 0 /\ (~Truthy(task0) \/ ~FindTask(tasks, task0))
                          THEN FieldOf(tasks[1].task) ELSE task0
            IN [client |-> client, project |-> project, task |-> task]

\* the revision's card: its Project input is a dropdown
HomepageCardRevised ==
  HomepageCardOn(UserInputs(DropdownValues(card.projects, card.project)))

\* the revision's buildUiCard: applyDefaultSelections with its read of the
\* client list, the read of buildEventBasicsSection, the Project and Task
\* inputs of buildWorkDetailsSection, buildEventActionsSection
buildUiCardRevised ==
  /\ card.op = "HomepageCard" /\ card.pc = "dispatch"
  /\ card.event # Some("newEventSaveButton")
  /\ LET got1 == fetchData(cache, ledger, clock)
         listed1 == getActiveClients(got1.data, clock)
         picked == applyDefaultSelections(card.nestedItems,
                     [i \in 1..Len(listed1) |-> StringOf(listed1[i])],
                     card.client, card.project, card.task)
         got == fetchData(got1.cache, ledger, clock)
         listed == getActiveClients(got.data, clock)
         selectedClient == IF Truthy(picked.client)
                             THEN ValueOfKey(card.nestedItems, picked.client[1])
                             ELSE <<>>
         tasks == IF Truthy(picked.project)
                    THEN ValueOfKey(selectedClient, picked.project[1])
                    ELSE <<>>
     IN /\ cache' = got.cache
        /\ card' = [card EXCEPT
             !.pc = "shown", !.client = picked.client,
             !.project = picked.project, !.task = picked.task,
             !.clientItems = [i \in 1..Len(listed) |-> StringOf(listed[i])],
             !.clientData = got.data,
             !.projects = ObjectKeys(selectedClient),
             !.tasks = TaskItems(tasks),
             !.isButtonEnabled =
                isButtonEnabled(picked.client, picked.project, picked.task),
             !.outcome = IF card.event = Undefined THEN "card"
                         ELSE "updateCard"]
  /\ UNCHANGED <<token, feed, warehouse, run, mapVars, config, prev, calendar,
                 clock, response, ledger, projects, call>>

NextRevised ==
  \/ HomepageCardRevised
  \/ buildUiCardRevised
  \/ handleCreateEvent
  \/ Tick
  \/ clearCache
  \/ CallReturn

SpecRevised == InitHome /\ [][NextRevised]_vars

(***************************************************************************)
(* Specification of the calendar: callers hand createEvent and updateEvent *)
(* every kind of time, the provider accepts or fails a request, and        *)
(* EventCard is asked for the events of the calendar                       *)
(***************************************************************************)
InitCalendar ==
  /\ token = Undefined
  /\ feed = <<>>
  /\ warehouse = <<>>
  /\ clock = 0
  /\ run = [r \in Runs |-> IdleRun]
  /\ response = "none"
  /\ ev = NoEvent
  /\ rec = NotMapped
  /\ ledger = <<HomeRow("T1", "A", "P", "T")>>
  /\ cache = Undefined
  /\ projects = <<>>
  /\ call = NoCall
  /\ config \in {Configured, [Configured EXCEPT !.CALENDAR_ID = FALSE],
                 NotConfigured}
  /\ prev = NoBatch
  /\ card = NoCard
  /\ calendar = NoCalendar

\* gasCalendarManager({ calendarId }).createEvent(eventDetails)
createEvent ==
  /\ Len(calendar.requests) < MaxRequests
  /\ \E startTime \in TimeValues, endTime \in TimeValues, accepted \in BOOLEAN :
       calendar' = createEventOn(calendar, config.CALENDAR_ID,
                                 startTime, endTime, accepted)
  /\ UNCHANGED <<token, feed, warehouse, run, mapVars, config, prev, card,
                 clock, response, catVars>>

\* gasCalendarManager({ calendarId }).updateEvent(eventId, updates)
updateEvent ==
  /\ Len(calendar.requests) < MaxRequests
  /\ \E eventId \in 1..(Len(calendar.events) + 1),
        startTime \in TimeValues, endTime \in TimeValues, accepted \in BOOLEAN :
       calendar' = updateEventOn(calendar, config.CALENDAR_ID, eventId,
                                 startTime, endTime, accepted)
  /\ UNCHANGED <<token, feed, warehouse, run, mapVars, config, prev, card,
                 clock, response, catVars>>

\* what parameters.event may be
EventParams ==
  {Undefined, Some("inputChangeClient"), Some("inputChangeProject"),
   Some("inputChangeTask"), Some("updateEvent")}

\* EventCard's last statement, actionEvent && eventHandlers[actionEvent] ?
\* eventHandlers[actionEvent]() : buildUiCard(): EventCard binds
\* parameters.event to eventParam and neither it nor the top level of a
\* file binds actionEvent, so reading it throws a ReferenceError before
\* handleUpdateEvent, handleInputChange or buildUiCard is called
EventCardDispatch(eventParam) == "ReferenceError"

\* EventCard: the notification for incomplete calendar information, the
\* redirect to AdminCard, the notification when Calendar.Events.get throws,
\* else the read of the tree and the dispatch
EventCard ==
  /\ NoInvocation
  /\ \E eventParam \in EventParams, complete \in BOOLEAN,
        eventId \in 1..(Len(calendar.events) + 1) :
       LET got == fetchData(cache, ledger, clock)
           reads == complete /\ config.IS_INITIALIZED
                    /\ eventId \in 1..Len(calendar.events)
       IN /\ cache' = IF reads THEN got.cache ELSE cache
          /\ card' = [NoCard EXCEPT
               !.op = "EventCard", !.pc = "shown", !.event = eventParam,
               !.treeData = IF reads THEN got.data ELSE <<>>,
               !.nestedItems = IF reads
                                 THEN getActiveProjectsTree(got.data, clock)
                                 ELSE <<>>,
               !.outcome =
                  IF ~complete THEN "missingCalendar"
                  ELSE IF ~config.IS_INITIALIZED THEN "AdminCard"
                  ELSE IF eventId \notin 1..Len(calendar.events)
                    THEN "loadFailed"
                  ELSE EventCardDispatch(eventParam)]
  /\ UNCHANGED <<token, feed, warehouse, run, mapVars, config, prev, calendar,
                 clock, response, ledger, projects, call>>

NextCalendar ==
  \/ createEvent
  \/ updateEvent
  \/ EventCard

SpecCalendar == InitCalendar /\ [][NextCalendar]_vars


(***************************************************************************)
(* Properties of the event path                                            *)
(***************************************************************************)

\* C1: a run that aborts because the change-feed fetch raised, or because
\* the warehouse append raised after a successful fetch, leaves the stored
\* token equal to the token stored before the run.
C1_FatalRunKeepsToken ==
  \A r \in Runs :
    (run[r].pc = "done" /\ run[r].error \in {"list", "insert"})
      => token = run[r].syncToken

\* C2: in a run whose fetch returned a non-empty mutation list the token is
\* written only after the warehouse append has returned: as long as the
\* append has not returned, the stored token is still the one the run read.
C2_TokenWrittenAfterAppend ==
  \A r \in Runs :
    (run[r].pc \in {"map", "insert", "done"} /\ Len(run[r].events) > 0
       /\ ~run[r].appended)
      => token = run[r].syncToken

\* C3: after a run that completed successfully and whose fetch returned a
\* nextSyncToken, the stored token is exactly that nextSyncToken.
C3_TokenIsNextToken ==
  \A r \in Runs :
    (run[r].pc = "done" /\ run[r].outcome = "success"
       /\ run[r].nextSyncToken # Undefined)
      => token = run[r].nextSyncToken

C3_Witness ==
  \E r \in Runs :
    /\ run[r].pc = "done" /\ run[r].outcome = "success"
    /\ run[r].nextSyncToken # Undefined
    /\ run[r].syncToken # Undefined
    /\ run[r].syncToken # run[r].nextSyncToken
    /\ token = run[r].nextSyncToken

\* C4: after resetSyncToken the stored token is absent until the next run
\* stores one, and the next run issues its list request without a syncToken.
C4_ResetForcesFullSync ==
  [][/\ (/\ response' = "resetOk"
         /\ \A r \in Runs : run'[r].pc \in {"idle", "list", "save"})
          => token' = Undefined
     /\ \A r \in Runs :
          (response = "resetOk" /\ run[r].pc = "list" /\ run'[r].pc # "list")
            => run'[r].sent = Undefined]_vars

C4_Witness ==
  \E r \in Runs :
    /\ response = "resetOk"
    /\ warehouse # <<>>
    /\ run[r].pc = "save"
    /\ run[r].sent = Undefined
    /\ Len(run[r].events) > 0

\* C5: when the fetch returned no mutation and a nextSyncToken, the run
\* stores that token, appends nothing to the warehouse and ends in success.
C5_EmptyRunStoresToken ==
  [][\A r \in Runs :
       (run[r].pc = "save" /\ Len(run[r].events) = 0
          /\ run[r].nextSyncToken # Undefined)
         => /\ token' = run[r].nextSyncToken
            /\ warehouse' = warehouse
            /\ run'[r].pc = "done"
            /\ run'[r].outcome = "success"
            /\ ~run'[r].appended]_vars

C5_Witness ==
  \E r \in Runs :
    /\ run[r].pc = "done" /\ run[r].outcome = "success"
    /\ Len(run[r].events) = 0
    /\ ~run[r].appended
    /\ run[r].nextSyncToken # Undefined
    /\ token = run[r].nextSyncToken
    /\ token # run[r].syncToken

\* C6: when the list call fails the run ends in error, nothing has been
\* mapped or appended, the stored token is the one the run read, and a run
\* starting now would send the same syncToken as the failed run did.
C6_FetchErrorKeepsToken ==
  \A r \in Runs :
    (run[r].pc = "done" /\ run[r].error = "list")
      => /\ run[r].outcome = "error"
         /\ response = "syncError"
         /\ run[r].rows = <<>>
         /\ ~run[r].appended
         /\ token = run[r].syncToken
         /\ RequestToken(token) = run[r].sent

C6_Witness ==
  \E r \in Runs :
    /\ run[r].pc = "done" /\ run[r].error = "list"
    /\ run[r].sent # Undefined
    /\ token = run[r].syncToken
    /\ warehouse # <<>>

\* C7: a fetch without syncToken returns the complete current event set,
\* however many events the provider holds, together with a nextSyncToken.
C7_FullFetchIsComplete ==
  \A r \in Runs :
    (run[r].pc = "save" /\ run[r].sent = Undefined)
      => /\ {run[r].events[i] : i \in 1..Len(run[r].events)}
              = {feed[LastPos(feed, id)] : id \in IdsOf(feed)}
         /\ run[r].nextSyncToken # Undefined

\* C8: every fetched mutation yields one row of the submitted batch, with
\* deleted = TRUE exactly for the cancelled ones; no mutation makes the
\* mapping fail.
C8_TombstonesPreserved ==
  \A r \in Runs :
    (run[r].pc \in {"insert", "done"} /\ Len(run[r].events) > 0)
      => /\ run[r].error # "map"
         /\ Len(run[r].rows) = Len(run[r].events)
         /\ \A i \in 1..Len(run[r].rows) :
              /\ run[r].rows[i].id = run[r].events[i].id
              /\ run[r].rows[i].deleted
                   = (run[r].events[i].status = Some("cancelled"))

\* the Categories text of the event is absent, is no JSON, or is JSON that
\* is no array
MalformedCategories(event) ==
  LET text == IF event.extendedProperties # Undefined
                 /\ event.extendedProperties[1].shared # Undefined
              THEN event.extendedProperties[1].shared[1].Categories
              ELSE Undefined
  IN text = Undefined \/ ~JSONparse(text[1]).ok
       \/ JSONparse(text[1]).val.kind # "array"

\* C9: a mutation with malformed Categories maps to a row with an empty
\* categories list and raises no error: the whole batch is mapped.
C9_MalformedCategoriesResilience ==
  \A r \in Runs :
    (/\ run[r].pc \in {"insert", "done"}
     /\ \E i \in 1..Len(run[r].events) : MalformedCategories(run[r].events[i]))
      => /\ run[r].error # "map"
         /\ Len(run[r].rows) = Len(run[r].events)
         /\ \A i \in 1..Len(run[r].rows) :
              MalformedCategories(run[r].events[i])
                => run[r].rows[i].categories = <<>>

\* the column of the row that carries a text field of the event
Column ==
  [summary |-> "summary", description |-> "description", Code |-> "code",
   Client |-> "client", Project |-> "project", Task |-> "task",
   Rate |-> "rate", Comments |-> "comments", CompanySize |-> "company_size",
   OriginalTitle |-> "original_title"]

\* the text field f is missing in the event (for a metadata field: also
\* when the metadata bag is missing)
Missing(event, f) ==
  IF f \in MetaFields
    THEN \/ event.extendedProperties = Undefined
         \/ event.extendedProperties[1].shared = Undefined
         \/ event.extendedProperties[1].shared[1][f] = Undefined
    ELSE event[f] = Undefined

HasMandatory(r) == ~RowFails(r, 0)

\* C11: for a catalog batch in which some rows lack a mandatory field,
\* exactly the rows that have all mandatory fields are submitted to the
\* warehouse: an invalid row does not keep its siblings from being inserted.
C11_PartialInsertKeepsGoodRows ==
  (/\ call.op = "syncProjectData" /\ call.error # "read"
   /\ \E i \in 1..Len(call.data) : ~HasMandatory(call.data[i])
   /\ \E i \in 1..Len(call.data) : HasMandatory(call.data[i]))
    => /\ call.submitted
       /\ LET valid == SelectSeq(call.data, HasMandatory)
          IN call.rows = [i \in 1..Len(valid) |-> ProjectRow(valid[i], call.now)]

\* C12: when the warehouse answers a batch append with row-level failures,
\* in the event path and in the catalog path, the run completes: it does not
\* end in an error.
C12_RowFailuresDoNotAbort ==
  /\ \A r \in Runs :
       (run[r].pc = "done" /\ run[r].insertErrors) => run[r].outcome = "success"
  /\ (call.op = "syncProjectData" /\ call.rejected # {})
       => call.outcome = "success"

\* C13: the warehouse only grows, existing rows are never changed or
\* removed, and every run submits one row per fetched mutation, also for an
\* event id that is already in the warehouse.
C13_InsertOnly ==
  [][/\ Len(warehouse') >= Len(warehouse)
     /\ SubSeq(warehouse', 1, Len(warehouse)) = warehouse
     /\ Len(projects') >= Len(projects)
     /\ SubSeq(projects', 1, Len(projects)) = projects
     /\ \A r \in Runs :
          (run'[r].pc = "done" /\ run'[r].error # "list")
            => /\ Len(run'[r].rows) = Len(run'[r].events)
               /\ \A i \in 1..Len(run'[r].rows) :
                    run'[r].rows[i].id = run'[r].events[i].id]_vars

\* C14: fetchData returns the stored rows without reading the sheet when the
\* cache holds a snapshot whose expiry has not elapsed; otherwise it reads
\* the sheet once, stores what it read with expiry cacheExpiry, and returns
\* it.
C14_CacheGet ==
  [][call'.op = "fetchData"
       => IF cache # Undefined /\ clock < cache[1].expires
            THEN /\ ~call'.read
                 /\ call'.data = cache[1].text.json
                 /\ cache' = cache
            ELSE /\ call'.read
                 /\ call'.data = ledger
                 /\ cache' # Undefined
                 /\ cache'[1].text = JSONstringify(ledger)
                 /\ cache'[1].expires = clock + cacheExpiry]_vars

C14_Witness ==
  /\ call.op = "fetchData"
  /\ ~call.read
  /\ call.now > 0
  /\ Len(call.data) > 0
  /\ call.data # JSONstringify(ledger).json

\* C15: clearCache leaves no snapshot; as long as there is none, only a read
\* of the project data stores one, and that read reads the sheet and returns
\* its current rows.
C15_InvalidateForcesReload ==
  [][/\ call'.op = "clearCache" => cache' = Undefined
     /\ (cache = Undefined /\ cache' # Undefined)
          => call'.op \in {"fetchData", "syncProjectData"}
     /\ (cache = Undefined /\ call'.op = "fetchData")
          => /\ call'.read
             /\ call'.data = ledger]_vars

C15_Witness ==
  /\ call.op = "clearCache"
  /\ call.before # Undefined
  /\ call.before[1] # JSONstringify(ledger).json
  /\ cache = Undefined

\* C16: syncToBigQuery builds its rows from the sheet as it is at the time of
\* the run, also when the cache holds an unexpired snapshot that differs.
C16_SyncReadsLedger ==
  (call.op = "syncProjectData" /\ call.error # "read")
    => /\ call.read
       /\ call.data = ledger
       /\ call.submitted
            => call.rows = [i \in 1..Len(ledger) |-> ProjectRow(ledger[i], call.now)]

C16_Witness ==
  /\ call.op = "syncProjectData"
  /\ call.submitted
  /\ Len(call.rows) > 0
  /\ call.before # Undefined
  /\ call.before[1] # JSONstringify(ledger).json

\* C17: when handleSyncProjectData has finished, in success or in error, the
\* cache holds no snapshot.
C17_CacheInvalidatedAfterSync ==
  call.op = "syncProjectData" => cache = Undefined

(***************************************************************************)
(* Properties of the active views                                          *)
(***************************************************************************)
\* the day of an instant
Day(t) == t \div DayLen

IsDate(c) == c.k \in {"date", "iso"}

\* the row's entry is in the tree under the row's client and project
InTree(tree, row) ==
  \E c \in 1..Len(tree) :
    /\ tree[c].key = KeyOf(row.client)
    /\ \E p \in 1..Len(tree[c].value) :
         /\ tree[c].value[p].key = KeyOf(row.project)
         /\ \E k \in 1..Len(tree[c].value[p].value) :
              tree[c].value[p].value[k] = EntryOf(row)

\* the window test in days, a missing bound taken as the day of asOf
Window(row, asOf) ==
  LET s == IF row.start = Empty THEN Day(asOf) ELSE Day(row.start.n)
      e == IF row.end = Empty THEN Day(asOf) ELSE Day(row.end.n)
  IN s <= Day(asOf) /\ Day(asOf) <= e

\* each bound of the row is missing or a date
Bounded(row) ==
  /\ row.start = Empty \/ IsDate(row.start)
  /\ row.end = Empty \/ IsDate(row.end)

\* the row is active at asOf
ActiveAt(row, asOf) == Bounded(row) /\ Window(row, asOf)

\* C18: a row with both validity bounds present is in the tree of active
\* projects, under its client and project, if and only if the day of asOf
\* lies between the day of its start and the day of its end, both included.
C18_ActiveWindowInclusion ==
  call.op = "getActiveProjectsTree"
    => \A i \in 1..Len(call.data) :
         (IsDate(call.data[i].start) /\ IsDate(call.data[i].end))
           => (InTree(call.tree, call.data[i])
                 <=> /\ Day(call.data[i].start.n) <= Day(call.now)
                     /\ Day(call.now) <= Day(call.data[i].end.n))

C18_Witness ==
  /\ call.op = "getActiveProjectsTree"
  /\ \E i \in 1..Len(call.data) :
       /\ IsDate(call.data[i].start) /\ IsDate(call.data[i].end)
       /\ call.data[i].end.n < call.now
       /\ Day(call.data[i].end.n) = Day(call.now)
       /\ Day(call.data[i].start.n) = Day(call.now)
       /\ InTree(call.tree, call.data[i])

\* the values of the list
Values(list) == {list[k] : k \in 1..Len(list)}

\* the column an active view lists
ListedColumn ==
  [getActiveClients |-> "client", getActiveProjects |-> "project"]

\* C19: in the active tree, clients and projects a missing validity bound is
\* taken as asOf: a row without end is included iff its start day is not
\* after asOf, a row without start iff its end day is not before asOf, a row
\* without both always.
C19_MissingBoundIsAsOf ==
  /\ call.op = "getActiveProjectsTree"
       => \A i \in 1..Len(call.data) :
            (Bounded(call.data[i])
               /\ (call.data[i].start = Empty \/ call.data[i].end = Empty))
              => (InTree(call.tree, call.data[i])
                    <=> Window(call.data[i], call.now))
  /\ call.op \in DOMAIN ListedColumn
       => LET col == ListedColumn[call.op] IN
          \A i \in 1..Len(call.data) :
            (/\ Bounded(call.data[i])
             /\ call.data[i].start = Empty \/ call.data[i].end = Empty
             /\ CellTruthy(call.data[i][col]))
              => /\ Window(call.data[i], call.now)
                      => call.data[i][col] \in Values(call.list)
                 /\ (/\ ~Window(call.data[i], call.now)
                     /\ \A j \in 1..Len(call.data) :
                          j # i => call.data[j][col] # call.data[i][col])
                      => call.data[i][col] \notin Values(call.list)

C19_Witness ==
  /\ call.op = "getActiveClients"
  /\ \E i \in 1..Len(call.data) :
       /\ IsDate(call.data[i].start)
       /\ call.data[i].end = Empty
       /\ Day(call.data[i].start.n) < Day(call.now)
       /\ \A j \in 1..Len(call.data) :
            j # i => call.data[j].client # call.data[i].client
       /\ call.data[i].client \in Values(call.list)

\* position of the first active row that carries the value in the column
FirstActive(data, asOf, col, v) ==
  CHOOSE i \in 1..Len(data) :
    /\ ActiveAt(data[i], asOf) /\ data[i][col] = v
    /\ \A j \in 1..(i - 1) : ~(ActiveAt(data[j], asOf) /\ data[j][col] = v)

EntriesOf(data, c, p) ==
  LET sel == SelectSeq(data, LAMBDA r : KeyOf(r.client) = c /\ KeyOf(r.project) = p)
  IN [i \in 1..Len(sel) |-> EntryOf(sel[i])]

\* no two entries of an object have the same key
DistinctKeys(obj) ==
  \A i, j \in 1..Len(obj) : obj[i].key = obj[j].key => i = j

\* C21: getNestedStructure places every row exactly once, under its client
\* and then its project: the task list of every project of the tree is the
\* entries of exactly the rows with that client and project, in the order
\* of the rows, and every row has its client and project in the tree; this
\* also when the rows of one project are not adjacent.
C21_TreePlacesEveryRowOnceInOrder ==
  call.op = "getNestedStructure" =>
    /\ DistinctKeys(call.tree)
    /\ \A ci \in 1..Len(call.tree) :
         /\ DistinctKeys(call.tree[ci].value)
         /\ \A pi \in 1..Len(call.tree[ci].value) :
              /\ call.tree[ci].value[pi].value # <<>>
              /\ call.tree[ci].value[pi].value =
                   EntriesOf(call.data, call.tree[ci].key,
                             call.tree[ci].value[pi].key)
    /\ \A i \in 1..Len(call.data) :
         \E ci \in 1..Len(call.tree) :
           /\ call.tree[ci].key = KeyOf(call.data[i].client)
           /\ \E pi \in 1..Len(call.tree[ci].value) :
                call.tree[ci].value[pi].key = KeyOf(call.data[i].project)
    /\ Len(call.data) = Len(ledger)
    /\ \A i \in 1..Len(ledger) : call.data[i].code = ledger[i].code

\* the tree was built from a sheet in which two rows of one project have a
\* row of another project of the same client between them
C21_Witness ==
  /\ call.op = "getNestedStructure"
  /\ Len(call.data) = 3
  /\ call.data[1].client = call.data[2].client
  /\ call.data[1].client = call.data[3].client
  /\ call.data[1].project = call.data[3].project
  /\ call.data[1].project # call.data[2].project
  /\ \E ci \in 1..Len(call.tree) : \E pi \in 1..Len(call.tree[ci].value) :
       Len(call.tree[ci].value[pi].value) = 2

\* C22: in one run of syncToBigQuery every row handed to the warehouse
\* carries the same timestamp in record_date_time and in modified_time, the
\* instant the run took once, and all rows of the run share it.
C22_OneTimestampPerCatalogRun ==
  (call.op = "syncProjectData" /\ call.submitted) =>
    \A i, j \in 1..Len(call.rows) :
      /\ call.rows[i].record_date_time = Some(call.now)
      /\ call.rows[i].modified_time = call.rows[j].record_date_time

\* a run has handed a batch of two rows to the warehouse
C22_Witness ==
  /\ call.op = "syncProjectData"
  /\ call.submitted
  /\ Len(call.rows) = 2
  /\ call.now > 0

\* a row of the sheet lacks a mandatory cell
Lacks(r) ==
  \E f \in {"code", "client", "project", "task", "start", "end"} : r[f] = Empty

\* C23: whenever a row of the sheet lacks any of id, client, project, task,
\* validity start or validity end, the row mapping raises a validation
\* error that names the index of an offending row, and nothing has been
\* submitted to the warehouse.
C23_MissingFieldNamesRow ==
  (call.op = "syncProjectData" /\ call.error # "read"
     /\ \E i \in 1..Len(call.data) : Lacks(call.data[i])) =>
    /\ call.outcome = "error"
    /\ call.error = "validation"
    /\ call.index \in 1..Len(call.data)
    /\ Lacks(call.data[call.index])
    /\ ~call.submitted

\* the number a cell means: the number itself or the number its text
\* writes, Null when the cell is absent or not numeric
NumberMeant(c) ==
  CASE c.k = "num" -> Some(c.n)
    [] c = Text("0") -> Some(0)
    [] c = Text("5") -> Some(5)
    [] OTHER -> Null

\* C24: in every row handed to the warehouse, rate and budgeted_hours are
\* the number the cell means, zero included, whether the cell holds the
\* number or its text, and null only when the cell is absent or not
\* numeric.
C24_NumbersCoerced ==
  (call.op = "syncProjectData" /\ call.submitted) =>
    \A i \in 1..Len(call.rows) :
      /\ call.rows[i].rate = NumberMeant(call.data[i].rate)
      /\ call.rows[i].budgeted_hours = NumberMeant(call.data[i].budgetedHours)

\* a warehouse row without its record and modified timestamps
Untimed(row) == [row EXCEPT !.record_date_time = Null, !.modified_time = Null]

\* C25: two runs of the catalog sync over an unchanged sheet, whatever the
\* cache held before each of them, submit batches of the same length whose
\* rows are pairwise identical in every field except record_date_time and
\* modified_time.
C25_CatalogSyncIdempotent ==
  (call.op = "syncProjectData" /\ call.submitted /\ prev.submitted) =>
    /\ Len(call.rows) = Len(prev.rows)
    /\ \A i \in 1..Len(call.rows) : Untimed(call.rows[i]) = Untimed(prev.rows[i])

\* a second run has submitted a batch at a later instant than the first,
\* and the cache served a snapshot when it began
C25_Witness ==
  /\ call.op = "syncProjectData"
  /\ call.submitted
  /\ prev.submitted
  /\ Len(call.rows) > 0
  /\ call.before # Undefined
  /\ call.rows[1].record_date_time # prev.rows[1].record_date_time

\* C26: every event row submitted to the warehouse has a load timestamp and
\* the id of its event, and all rows submitted by one run carry the same
\* load timestamp.
C26_EventRowsStamped ==
  \A r \in Runs :
    (run[r].pc \in {"insert", "done"} /\ run[r].rows # <<>>) =>
      \A i, j \in 1..Len(run[r].rows) :
        /\ run[r].rows[i].record_load_time # Undefined
        /\ run[r].rows[i].record_load_time = run[r].rows[j].record_load_time
        /\ run[r].rows[i].id \in EventIds
        /\ run[r].rows[i].id = run[r].events[i].id

\* a run has appended a batch of two rows
C26_Witness ==
  \E r \in Runs :
    /\ run[r].pc = "done"
    /\ run[r].appended
    /\ Len(run[r].rows) = 2

\* C28: the caller of the event sync can tell a run in which the warehouse
\* rejected some rows from a run in which it accepted all: a run that ended
\* with row errors is not answered with the plain success response.
C28_RowErrorsToldApart ==
  \A r \in Runs :
    (run[r].pc = "done" /\ run[r].appended /\ run[r].insertErrors)
      => response # "syncOk"

\* C30: the stored token changes only when a fetch whose response carries
\* nextSyncToken overwrites it with that token, or when resetSyncToken
\* removes it; the step that handles a response without nextSyncToken
\* leaves it as it was, and so does the rest of that run, whether or not
\* events were returned and appended.
C30_TokenFrame ==
  [][/\ token' # token =>
          \/ /\ Quiet /\ token' = Undefined /\ response' = "resetOk"
          \/ \E r \in Runs :
               /\ run[r].pc = "save" /\ run'[r].pc # "save"
               /\ run[r].nextSyncToken # Undefined
               /\ token' = run[r].nextSyncToken
     /\ \A r \in Runs :
          (run[r].pc = "save" /\ run[r].nextSyncToken = Undefined
             /\ run'[r].pc # "save") => token' = token
     /\ \A r \in Runs :
          (run'[r].pc \in {"map", "insert", "done"} /\ run'[r].error # "list"
             /\ run'[r].nextSyncToken = Undefined)
            => token' = run'[r].syncToken]_vars

\* a run whose response carried events but no nextSyncToken has appended
\* its rows, and the stored token is the one the run read
C30_Witness ==
  \E r \in Runs :
    /\ run[r].pc = "done"
    /\ run[r].appended
    /\ run[r].rows # <<>>
    /\ run[r].nextSyncToken = Undefined
    /\ run[r].syncToken # Undefined
    /\ token = run[r].syncToken

\* what a sync works on: the calendar fetch and the token, the sheet, the
\* cache, the two warehouse tables, the clock the runs read
workVars == <<token, feed, warehouse, clock, run, ledger, cache, projects, call>>

\* C27: when an identifier a sync requires is missing (project, dataset or
\* calendar for the event sync; project, dataset or spreadsheet for the
\* catalog sync), entering that sync through the admin card does no work:
\* no fetch, no read of the sheet, no append, no token write, no cache
\* change; and the caller gets a failure.
C27_MissingIdentifierNoWork ==
  [][/\ ((\E r \in Runs : AdminSyncEvents(r))
          /\ (~config.PROJECT_ID \/ ~config.DATASET_ID \/ ~config.CALENDAR_ID))
         => /\ UNCHANGED workVars
            /\ response' \in {"syncError", "uncaught"}
     /\ (AdminSyncProjectData
          /\ (~config.PROJECT_ID \/ ~config.DATASET_ID \/ ~config.SPREADSHEET_ID))
         => /\ UNCHANGED workVars
            /\ response' \in {"projectsError", "uncaught"}]_vars

\* a sync was entered while the configuration was marked initialized and
\* lacked the calendar id, and the card threw
C27_Witness ==
  /\ response = "uncaught"
  /\ config.IS_INITIALIZED
  /\ ~config.CALENDAR_ID
  /\ config.PROJECT_ID

\* an event row without its load timestamp
Unstamped(row) == [row EXCEPT !.record_load_time = Undefined]

\* the warehouse holds a row for the mutation at position q of the feed
AppendedAt(q) ==
  \E k \in 1..Len(warehouse) :
    Unstamped(warehouse[k]) = Unstamped(RowOf(feed[q]))

\* both invocations have finished, each having fetched, stored what the
\* response told it to and appended whatever it fetched, no append failing
BothRunsSucceeded ==
  \A r \in Runs :
    /\ run[r].pc = "done"
    /\ run[r].outcome = "success"
    /\ ~run[r].insertErrors

\* C29: two interleaved runs of the event sync, every append succeeding,
\* lose no mutation: once both have finished, the state every event had at
\* the position of the stored token has been appended at least once, and
\* the stored token is the one of either run's response (possibly the
\* older) or still absent.
C29_RaceLosesNoMutation ==
  BothRunsSucceeded =>
    /\ token # Undefined =>
         /\ \E r \in Runs : token = run[r].nextSyncToken
         /\ \A id \in IdsOf(SubSeq(feed, 1, token[1])) :
              AppendedAt(LastPos(SubSeq(feed, 1, token[1]), id))
    /\ token = Undefined => \A r \in Runs : run[r].nextSyncToken = Undefined

\* both runs read the token before either stored one, a mutation came
\* between their fetches, both appended, and the older token was stored last
C29_Witness ==
  /\ BothRunsSucceeded
  /\ \A r \in Runs : run[r].appended /\ run[r].syncToken = Undefined
  /\ run[1].nextSyncToken # Undefined
  /\ run[2].nextSyncToken # Undefined
  /\ run[1].nextSyncToken[1] < run[2].nextSyncToken[1]
  /\ token = run[1].nextSyncToken
  /\ Len(warehouse) > Cardinality(IdsOf(feed))

C34_UninitializedActionsRefused ==
  [][~config.IS_INITIALIZED =>
       /\ (\E r \in Runs : AdminSyncEvents(r))
            => UNCHANGED workVars /\ response' = "syncError"
       /\ AdminResetSync
            => UNCHANGED workVars /\ response' = "resetError"
       /\ AdminSyncProjectData
            => UNCHANGED workVars /\ response' = "projectsError"]_vars

\* resetSync was refused while a token was stored
C34_Witness ==
  /\ response = "resetError"
  /\ ~config.IS_INITIALIZED
  /\ token # Undefined

\* the four identifiers are stored
AllStored(c) == \A key \in Identifiers : c[key]

\* C32: after any sequence of saveConfiguration, configureApp and
\* resetConfiguration calls the flag is set only if the four identifiers
\* are stored, and a saveConfiguration call with an identifier missing
\* throws and changes neither the identifiers nor the flag.
C32_InitializedOnlyWithIdentifiers ==
  [][/\ config'.IS_INITIALIZED => AllStored(config')
     /\ \A given \in SUBSET Identifiers :
          (given # Identifiers /\ saveConfiguration(given))
            => config' = config /\ call'.outcome = "threw"]_vars

\* C33: configureApp runs its steps in the order dataset, time table,
\* projects table, calendar, spreadsheet copy, save configuration; when a
\* step fails it answers success = false without throwing, runs no later
\* step and leaves the stored identifiers and the flag as they were; it
\* answers success = true only when all six steps succeeded.
C33_SetupStepsAllOrNothing ==
  [][(call'.op = "configureApp" /\ call.op = "none" /\ call'.list # <<>>) =>
       /\ call'.list = SubSeq(SetupSteps, 1, Len(call'.list))
       /\ call'.outcome \in {"success", "failure"}
       /\ call'.outcome = "success" =>
            call'.list = SetupSteps /\ call'.index = 0 /\ config' = Configured
       /\ call'.outcome = "failure" =>
            /\ call'.index = Len(call'.list)
            /\ config' = config]_vars


(***************************************************************************)
(* Properties of the homepage card                                         *)
(***************************************************************************)
\* the client keys of a tree that are not the empty text, in key order
RECURSIVE NonEmptyKeys(_)
NonEmptyKeys(tree) ==
  IF tree = <<>> THEN <<>>
  ELSE (IF tree[1].key = "" THEN <<>> ELSE <<tree[1].key>>)
       \o NonEmptyKeys(Tail(tree))

\* the card has been built for a user of an initialized app
HomeShown ==
  card.op = "HomepageCard" /\ card.pc = "shown"
  /\ card.outcome \in {"card", "updateCard"}

\* the sheet a read of the project data stands for, whether it came from
\* the sheet or from the cache
SnapshotOf(data) == JSONstringify(data)

\* C35: the list getActiveClients returns is the list of the non-empty
\* client keys of the tree getActiveProjectsTree makes of the same rows at
\* the same moment, in the same order; and the tree and the client list of
\* one invocation of HomepageCard are computed from the same rows, also when
\* the cache expires or is cleared between the two reads.
C35_ClientsAndTreeOfOneSnapshot ==
  [][buildUiCard =>
       /\ card'.clientItems =
            NonEmptyKeys(getActiveProjectsTree(card'.clientData, clock))
       /\ SnapshotOf(card'.clientData) = SnapshotOf(card'.treeData)]_vars

\* C37: whenever the card is displayed with the Create Event button enabled,
\* the selected project is a project of the selected client in the tree of
\* active projects and the selected task is a task of that project.
C37_EnabledButtonMeansSelectionInTree ==
  (HomeShown /\ card.isButtonEnabled) =>
    LET selectedClient == ValueOfKey(card.nestedItems, card.client[1])
    IN /\ IndexOfKey(selectedClient, card.project[1]) # 0
       /\ FindTask(ValueOfKey(selectedClient, card.project[1]), card.task)


(***************************************************************************)
(* Properties of the event card and of gasCalendarManager                  *)
(***************************************************************************)
\* EventCard has returned for an initialized app and an event it could load
EventCardServed ==
  /\ card.op = "EventCard" /\ card.pc = "shown"
  /\ card.outcome \notin {"missingCalendar", "AdminCard", "loadFailed"}

\* C36: an invocation of EventCard on an initialized app with a loadable
\* event ends in the outcome its parameters ask for: the card updated in
\* place for inputChangeClient, inputChangeProject and inputChangeTask, the
\* event patched on the calendar for updateEvent, the card built and
\* returned when there is no event.
C36_EventCardDispatches ==
  EventCardServed =>
    card.outcome =
      (CASE card.event = Undefined -> "card"
         [] card.event = Some("updateEvent") -> "patched"
         [] OTHER -> "updateCard")

\* a time was handed to the call
Given(v) == v.k # "undefined"

\* the times may not be sent: one of them is no Date of an instant, or the
\* start is not before the end
BadTimes(startTime, endTime) ==
  \/ startTime.k # "date"
  \/ endTime.k # "date"
  \/ startTime.n >= endTime.n

\* the call threw and the provider received nothing
ThrewUnsent ==
  /\ calendar'.call.threw
  /\ calendar'.requests = calendar.requests
  /\ calendar'.events = calendar.events

\* C38: every request the provider receives with times has its start
\* strictly before its end; createEvent throws without insert when the start
\* is not before the end or a time is not a Date; updateEvent given both
\* times does the same without patch, and updateEvent given exactly one of
\* the two throws without patch.
C38_OnlyOrderedTimesAreSent ==
  [][calendar' # calendar =>
       LET this == calendar'.call
       IN /\ \A i \in 1..Len(calendar'.requests) :
               calendar'.requests[i].start # Undefined =>
                 /\ calendar'.requests[i].end # Undefined
                 /\ calendar'.requests[i].start[1] < calendar'.requests[i].end[1]
          /\ (this.op = "createEvent" /\ BadTimes(this.startTime, this.endTime))
               => ThrewUnsent
          /\ (/\ this.op = "updateEvent"
              /\ Given(this.startTime) /\ Given(this.endTime)
              /\ BadTimes(this.startTime, this.endTime))
               => ThrewUnsent
          /\ (/\ this.op = "updateEvent"
              /\ Given(this.startTime) # Given(this.endTime))
               => ThrewUnsent]_vars

=============================================================================
